---- MODULE Spec2Model ----
(***************************************************************************)
(* A model of lld's ELF symbol table (lld/ELF/SymbolTable.cpp): the name   *)
(* index symMap, the record vector symVector, and the operations insert,   *)
(* addSymbol, find, wrap and scanVersionScript.                            *)
(*                                                                         *)
(* Names are sequences of one-character strings, so that find('@'),        *)
(* take_front and glob matching are computed as the code computes them.    *)
(* Indices into symVector are 0-based as in the code; TLA+ sequences are   *)
(* 1-based, hence the "+ 1" where a sequence is indexed.                   *)
(***************************************************************************)
EXTENDS Integers, Sequences, FiniteSets, TLC

VARIABLES
    symMap,      \* DenseMap<CachedHashStringRef, int>: name -> index in symVector
    symVector,   \* std::vector<Symbol *>: sequence of addresses into heap
    heap,        \* the arena of SymbolUnion objects: address -> record
    call,        \* the last operation called, its arguments and its result
    config,      \* config->versionDefinitions, dynamicList, undefinedVersion
    diags,       \* the warnings and errors reported so far, in order
    nWraps,      \* number of wrap calls made so far (one per --wrap option)
    scanPass,    \* position of scanVersionScript: 0 idle, 1..3 passes, 4 done
    scanPos,     \* index of the next rule of the current pass
    inputSections,  \* the InputSectionBase objects: section -> size, output section
    clusters,    \* CallGraphSort::clusters, cluster i is clusters[i + 1]
    sections,    \* CallGraphSort::sections, section of node i is sections[i + 1]
    secToCluster,   \* the DenseMap of the constructor: section -> node
    leaders,     \* the union-find forest of run()
    sorted,      \* the vector sorted of run()
    orderMap,    \* the DenseMap run() builds and returns
    cgPc,        \* position of CallGraphSort: "idle", "build", "run", "merge", "dump", "done"
    cgPos,       \* index of the next profile edge, or of the next entry of sorted
    demangledSyms   \* the Optional demangledSyms: the cached map, if it was built

cgVars == <<inputSections, clusters, sections, secToCluster, leaders, sorted,
            orderMap, cgPc, cgPos>>

vars == <<symMap, symVector, heap, call, nWraps, config, diags, scanPass, scanPos,
          inputSections, clusters, sections, secToCluster, leaders, sorted,
          orderMap, cgPc, cgPos, demangledSyms>>

\* demangledSyms before the first call of getDemangledSyms: llvm::None.
NoDemangledSyms == [hasValue |-> FALSE, value |-> << >>]

----------------------------------------------------------------------------
(* Bounds of the model *)

\* Most wrap calls in one run.
MaxWraps == 2

\* Most patterns in one pattern list of a version-script block.
MaxPats == 1

----------------------------------------------------------------------------
(* Strings *)

NPOS == -1

At == "@"

\* StringRef::find(char): 0-based position of the first c, or npos.
StrFind(s, c) ==
    IF \E i \in 1..Len(s) : s[i] = c
    THEN (CHOOSE i \in 1..Len(s) : s[i] = c /\ \A j \in 1..(i - 1) : s[j] # c) - 1
    ELSE NPOS

\* StringRef::take_front(n)
TakeFront(s, n) == SubSeq(s, 1, n)

\* StringRef::contains(char)
StrContains(s, c) == StrFind(s, c) # NPOS

\* The names the callers pass to insert, addSymbol and find.
NameSet ==
    { <<"a">>, <<"b">>,
      <<"a", "@", "@", "v">>,
      <<"a", "@", "v">> }

----------------------------------------------------------------------------
(* Symbol records *)

VER_NDX_LOCAL == 0
VER_NDX_GLOBAL == 1

\* verdefIndex of a symbol no version has been assigned to: UINT32_C(-1).
Unassigned == -1

\* The record insert() leaves behind for a name seen for the first time
\* (lines 83-94).  insert() does not write verdefIndex; the Symbol constructor
\* that runs when the placeholder is first resolved sets it to -1, the value
\* kept here.
NewPlaceholder(name) ==
    [ name |-> name, symbolKind |-> "Placeholder", versionId |-> VER_NDX_GLOBAL,
      verdefIndex |-> Unassigned, visibility |-> "STV_DEFAULT",
      isUsedInRegularObj |-> FALSE, exportDynamic |-> FALSE,
      inDynamicList |-> FALSE, canInline |-> TRUE, referenced |-> FALSE,
      traced |-> FALSE, scriptDefined |-> FALSE, partition |-> 1 ]

isPlaceholder(sym) == sym.symbolKind = "Placeholder"
isUndefined(sym) == sym.symbolKind = "Undefined"
isDefined(sym) == sym.symbolKind = "Defined"
isCommon(sym) == sym.symbolKind = "Common"
isLazy(sym) == sym.symbolKind = "Lazy"

\* The record a handle (an index of symVector) denotes.
RecAt(vec, hp, idx) == hp[vec[idx + 1]]

\* symMap[key] of DenseMap: a missing key is inserted with the value int() = 0.
MapSubscript(m, key) ==
    IF key \in DOMAIN m THEN m ELSE [k \in DOMAIN m \cup {key} |-> IF k = key THEN 0 ELSE m[k]]

----------------------------------------------------------------------------
(* insert *)

\* The suffix stripping of insert(): <name>@@<version> becomes <name>.
MutStripAnyAt(name) ==
    LET pos == StrFind(name, At)
    IN  IF pos # NPOS THEN TakeFront(name, pos) ELSE name

StripDefaultVersion(name) ==
    LET pos == StrFind(name, At)
    IN  IF pos # NPOS /\ pos + 1 < Len(name) /\ name[pos + 2] = At
        THEN TakeFront(name, pos)
        ELSE name

\* The effect of insert(name) on <<symMap, symVector, heap>> and the index of
\* the record it returns (the code returns symVector[index]).
MutInsertPrepends(m, vec, hp, name) ==
    LET key == StripDefaultVersion(name)
    IN  IF key \in DOMAIN m
        THEN [ map |-> m, vec |-> vec, heap |-> hp, index |-> m[key], isNew |-> FALSE ]
        ELSE [ map |-> [k \in DOMAIN m \cup {key} |-> IF k = key THEN 0 ELSE m[k] + 1],
               vec |-> <<Len(hp) + 1>> \o vec,
               heap |-> Append(hp, NewPlaceholder(key)),
               index |-> 0,
               isNew |-> TRUE ]

MutInsertResetsOnHit(m, vec, hp, name) ==
    LET key == StripDefaultVersion(name)
    IN  IF key \in DOMAIN m
        THEN [ map |-> m, vec |-> vec,
               heap |-> [hp EXCEPT ![vec[m[key] + 1]] = NewPlaceholder(key)],
               index |-> m[key], isNew |-> FALSE ]
        ELSE [ map |-> [k \in DOMAIN m \cup {key} |-> IF k = key THEN Len(vec) ELSE m[k]],
               vec |-> Append(vec, Len(hp) + 1),
               heap |-> Append(hp, NewPlaceholder(key)),
               index |-> Len(vec),
               isNew |-> TRUE ]

InsertResult(m, vec, hp, name) ==
    LET key == StripDefaultVersion(name)
    IN  IF key \in DOMAIN m
        THEN [ map |-> m, vec |-> vec, heap |-> hp, index |-> m[key], isNew |-> FALSE ]
        ELSE [ map |-> [k \in DOMAIN m \cup {key} |-> IF k = key THEN Len(vec) ELSE m[k]],
               vec |-> Append(vec, Len(hp) + 1),
               heap |-> Append(hp, NewPlaceholder(key)),
               index |-> Len(vec),
               isNew |-> TRUE ]

Idle == UNCHANGED <<config, diags, scanPass, scanPos, demangledSyms>> /\ UNCHANGED cgVars

NoWrap == UNCHANGED nWraps

\* What the last call was: its operation, its name argument (insert, addSymbol,
\* find), its three record arguments (wrap) and the index it returned.
NullHandle == -1

NoName == << >>

CallOf(op, name, ret) ==
    [op |-> op, name |-> name, ret |-> ret, sym |-> 0, real |-> 0, wrap |-> 0]

Insert(name) ==
    /\ scanPass = 0
    /\ LET r == InsertResult(symMap, symVector, heap, name)
       IN  /\ symMap' = r.map
           /\ symVector' = r.vec
           /\ heap' = r.heap
           /\ call' = CallOf("insert", name, r.index)
    /\ NoWrap
    /\ Idle

----------------------------------------------------------------------------
(* addSymbol *)

\* The symbols the input files hand to addSymbol.
NewSyms == [ name : NameSet, symbolKind : {"Undefined", "Defined"} ]

\* Symbol::resolve is the external resolver: which of the two symbols wins is
\* its business.  The record keeps its slot, its name and its flags; its kind
\* becomes the new symbol's or, unless it was a placeholder, stays.
ResolveOutcomes(old, new) ==
    { [old EXCEPT !.symbolKind = k]
      : k \in {new.symbolKind} \cup ({old.symbolKind} \ {"Placeholder"}) }

AddSymbol(newSym) ==
    /\ scanPass = 0
    /\ LET r == InsertResult(symMap, symVector, heap, newSym.name)
           addr == r.vec[r.index + 1]
       IN  /\ symMap' = r.map
           /\ symVector' = r.vec
           /\ \E res \in ResolveOutcomes(r.heap[addr], newSym) :
                 heap' = [r.heap EXCEPT ![addr] = res]
           /\ call' = CallOf("addSymbol", newSym.name, r.index)
    /\ NoWrap
    /\ Idle

----------------------------------------------------------------------------
(* find *)

\* The index find(name) returns, NullHandle for nullptr.
MutFindIgnoresPlaceholder(m, vec, hp, name) ==
    IF name \notin DOMAIN m THEN NullHandle ELSE m[name]

MutFindResultStrips(m, vec, hp, name) ==
    LET key == StripDefaultVersion(name)
    IN  IF key \notin DOMAIN m
        THEN NullHandle
        ELSE IF isPlaceholder(RecAt(vec, hp, m[key])) THEN NullHandle ELSE m[key]

FindResult(m, vec, hp, name) ==
    IF name \notin DOMAIN m
    THEN NullHandle
    ELSE IF isPlaceholder(RecAt(vec, hp, m[name])) THEN NullHandle ELSE m[name]

Find(name) ==
    /\ scanPass = 0
    /\ call' = CallOf("find", name, FindResult(symMap, symVector, heap, name))
    /\ UNCHANGED <<symMap, symVector, heap>>
    /\ NoWrap
    /\ Idle

----------------------------------------------------------------------------
(* wrap *)

\* The name bindings after lines 36-41.  idx1, idx2 and idx3 are references
\* into the map, so the two assignments act on the map one after the other.
MutWrapMapSymFirst(m, symName, realName, wrapName) ==
    LET m0 == MapSubscript(MapSubscript(MapSubscript(m, symName), realName), wrapName)
        m1 == [m0 EXCEPT ![symName] = m0[wrapName]]      \* idx1 = idx3
        m2 == [m1 EXCEPT ![realName] = m1[symName]]      \* idx2 = idx1
    IN  m2

WrapMap(m, symName, realName, wrapName) ==
    LET m0 == MapSubscript(MapSubscript(MapSubscript(m, symName), realName), wrapName)
        m1 == [m0 EXCEPT ![realName] = m0[symName]]      \* idx2 = idx1
        m2 == [m1 EXCEPT ![symName] = m1[wrapName]]      \* idx1 = idx3
    IN  m2

\* The arena after lines 43-56: sym's flags are adjusted, then sym is copied
\* over real and the copy is marked as not used in a regular object.
MutWrapHeapKeepsExport(hp, sym, real) ==
    LET s0 == hp[sym]
        r0 == hp[real]
        s2 == IF ~r0.isUsedInRegularObj /\ isUndefined(s0)
              THEN [s0 EXCEPT !.isUsedInRegularObj = FALSE]
              ELSE s0
    IN  [hp EXCEPT ![sym] = s2, ![real] = [s2 EXCEPT !.isUsedInRegularObj = FALSE]]

MutWrapHeapCopiesFirst(hp, sym, real) ==
    LET s0 == hp[sym]
        r0 == hp[real]
        s1 == IF r0.exportDynamic THEN [s0 EXCEPT !.exportDynamic = TRUE] ELSE s0
        s2 == IF ~r0.isUsedInRegularObj /\ isUndefined(s1)
              THEN [s1 EXCEPT !.isUsedInRegularObj = FALSE]
              ELSE s1
    IN  [hp EXCEPT ![sym] = s2, ![real] = [s0 EXCEPT !.isUsedInRegularObj = FALSE]]

WrapHeap(hp, sym, real) ==
    LET s0 == hp[sym]
        r0 == hp[real]
        s1 == IF r0.exportDynamic THEN [s0 EXCEPT !.exportDynamic = TRUE] ELSE s0
        s2 == IF ~r0.isUsedInRegularObj /\ isUndefined(s1)
              THEN [s1 EXCEPT !.isUsedInRegularObj = FALSE]
              ELSE s1
    IN  [hp EXCEPT ![sym] = s2, ![real] = [s2 EXCEPT !.isUsedInRegularObj = FALSE]]

\* The callers hand wrap the records of three symbols foo, __real_foo and
\* __wrap_foo (line 35): three records of the table that carry three
\* different names.
WrapArgs(hp, sym, real, wrap) ==
    /\ sym # real /\ sym # wrap /\ real # wrap
    /\ hp[sym].name # hp[real].name
    /\ hp[sym].name # hp[wrap].name
    /\ hp[real].name # hp[wrap].name

Wrap(sym, real, wrap) ==
    /\ scanPass = 0
    /\ nWraps < MaxWraps
    /\ nWraps' = nWraps + 1
    /\ WrapArgs(heap, sym, real, wrap)
    /\ symMap' = WrapMap(symMap, heap[sym].name, heap[real].name, heap[wrap].name)
    /\ heap' = WrapHeap(heap, sym, real)
    /\ call' = [op |-> "wrap", name |-> NoName, ret |-> NullHandle,
                sym |-> sym, real |-> real, wrap |-> wrap]
    /\ UNCHANGED symVector
    /\ Idle

----------------------------------------------------------------------------
(* The symbol table under its operations *)

NoConfig ==
    [versionDefinitions |-> << >>, dynamicList |-> << >>, undefinedVersion |-> FALSE]

\* No call-graph sort is made in this run.
NoCallGraphSort ==
    /\ inputSections = << >>
    /\ clusters = << >>
    /\ sections = << >>
    /\ secToCluster = << >>
    /\ leaders = << >>
    /\ sorted = << >>
    /\ orderMap = << >>
    /\ cgPc = "idle"
    /\ cgPos = 0

Init ==
    /\ symMap = << >>
    /\ symVector = << >>
    /\ heap = << >>
    /\ call = CallOf("none", NoName, NullHandle)
    /\ nWraps = 0
    /\ config = NoConfig
    /\ diags = << >>
    /\ scanPass = 0
    /\ scanPos = 0
    /\ demangledSyms = NoDemangledSyms
    /\ NoCallGraphSort

Next ==
    \/ \E name \in NameSet : Insert(name)
    \/ \E newSym \in NewSyms : AddSymbol(newSym)
    \/ \E name \in NameSet : Find(name)
    \/ \E sym \in 1..Len(heap), real \in 1..Len(heap), wrap \in 1..Len(heap) :
          Wrap(sym, real, wrap)

Spec == Init /\ [][Next]_vars

----------------------------------------------------------------------------
(* wrap on a table whose records carry flags *)

\* The table after addSymbol was called for each name of names in turn: the
\* i-th record is recs[i], bound to its own name.
TableMap(names) ==
    [k \in {names[i] : i \in 1..Len(names)} |->
        (CHOOSE i \in 1..Len(names) : names[i] = k) - 1]

TableVector(names) == [i \in 1..Len(names) |-> i]

\* The names of the symbols of the input files of this scenario, in the order
\* the files mention them, and a name that is first mentioned later on.
WrapTableNames == << <<"a">>, <<"b">>, <<"a", "@", "v">> >>

LateName == <<"c">>

\* What a record holds once the input files were read: addSymbol resolved it
\* and the file readers set its flags through the handle.
ResolvedRecords(name) ==
    { [NewPlaceholder(name) EXCEPT !.symbolKind = k,
                                   !.isUsedInRegularObj = u,
                                   !.exportDynamic = e]
      : k \in {"Undefined", "Defined"}, u \in BOOLEAN, e \in BOOLEAN }

InitWrap ==
    /\ symMap = TableMap(WrapTableNames)
    /\ symVector = TableVector(WrapTableNames)
    /\ \E r1 \in ResolvedRecords(WrapTableNames[1]),
          r2 \in ResolvedRecords(WrapTableNames[2]),
          r3 \in ResolvedRecords(WrapTableNames[3]) :
          heap = <<r1, r2, r3>>
    /\ call = CallOf("none", NoName, NullHandle)
    /\ nWraps = 0
    /\ config = NoConfig
    /\ diags = << >>
    /\ scanPass = 0
    /\ scanPos = 0
    /\ demangledSyms = NoDemangledSyms
    /\ NoCallGraphSort

NextWrap ==
    \/ \E sym \in 1..Len(heap), real \in 1..Len(heap), wrap \in 1..Len(heap) :
          Wrap(sym, real, wrap)
    \/ Insert(LateName)

SpecWrap == InitWrap /\ [][NextWrap]_vars

----------------------------------------------------------------------------
(* Version scripts: lookup by pattern *)

canBeVersioned(sym) == isDefined(sym) \/ isCommon(sym) \/ isLazy(sym)

Star == "*"

\* SingleStringMatcher::match for the glob patterns of this model: '*' stands
\* for any run of characters, every other character for itself.
RECURSIVE GlobMatch(_, _)
GlobMatch(pat, str) ==
    IF pat = << >> THEN str = << >>
    ELSE IF Head(pat) = Star
         THEN \/ GlobMatch(Tail(pat), str)
              \/ (str # << >> /\ GlobMatch(pat, Tail(str)))
         ELSE /\ str # << >>
              /\ Head(str) = Head(pat)
              /\ GlobMatch(Tail(pat), Tail(str))

\* A SymbolVersion: a pattern and whether the script parser saw a glob
\* character in it.
SymbolVersion(name) == [name |-> name, hasWildcard |-> StrContains(name, Star)]

\* findByVersion(ver): the addresses of the records found, in order.
FindByVersion(m, vec, hp, ver) ==
    LET idx == FindResult(m, vec, hp, ver.name)
    IN  IF idx # NullHandle /\ canBeVersioned(RecAt(vec, hp, idx))
        THEN <<vec[idx + 1]>>
        ELSE << >>

\* The lambda check of findAllByVersion.  pos + 1 is computed in size_t, so
\* npos + 1 is 0.
MutVersionCheckIgnoresFlag(name, includeNonDefault) == StrFind(name, At) = NPOS

VersionCheck(name, includeNonDefault) ==
    LET pos == StrFind(name, At)
        next == IF pos = NPOS THEN 0 ELSE pos + 1
    IN  IF ~includeNonDefault
        THEN pos = NPOS
        ELSE ~(next < Len(name) /\ name[next + 1] = At)

\* findAllByVersion(ver, includeNonDefault): the addresses of the matching
\* records in symVector order.
RECURSIVE FindAllFrom(_, _, _, _, _)
FindAllFrom(vec, hp, ver, includeNonDefault, i) ==
    IF i > Len(vec) THEN << >>
    ELSE LET sym == hp[vec[i]]
             rest == FindAllFrom(vec, hp, ver, includeNonDefault, i + 1)
         IN  IF /\ canBeVersioned(sym)
                /\ VersionCheck(sym.name, includeNonDefault)
                /\ GlobMatch(ver.name, sym.name)
             THEN <<vec[i]>> \o rest
             ELSE rest

FindAllByVersion(vec, hp, ver, includeNonDefault) ==
    FindAllFrom(vec, hp, ver, includeNonDefault, 1)

----------------------------------------------------------------------------
(* Version scripts: assigning a version *)

Warning(patName, from, to) ==
    [kind |-> "warning", name |-> patName, from |-> from, to |-> to]

ErrorNotDefined(patName, ver) ==
    [kind |-> "error", name |-> patName, from |-> ver, to |-> ver]

\* One round of the loop of assignExactVersion (lines 221-240) for the record
\* at addr: st is <<heap, warnings>>.
MutExactOneOverwrites(st, addr, ver, versionId, includeNonDefault) ==
    LET hp == st[1]
        sym == hp[addr]
    IN  IF ~includeNonDefault /\ versionId # VER_NDX_LOCAL /\ StrContains(sym.name, At)
        THEN st
        ELSE << [hp EXCEPT ![addr] = [sym EXCEPT !.verdefIndex = 0,
                                                   !.versionId = versionId]],
                st[2] >>

AssignExactOne(st, addr, ver, versionId, includeNonDefault) ==
    LET hp == st[1]
        sym == hp[addr]
    IN  IF ~includeNonDefault /\ versionId # VER_NDX_LOCAL /\ StrContains(sym.name, At)
        THEN st
        ELSE LET sym1 == IF sym.verdefIndex = Unassigned
                         THEN [sym EXCEPT !.verdefIndex = 0, !.versionId = versionId]
                         ELSE sym
                 hp1 == [hp EXCEPT ![addr] = sym1]
             IN  IF sym1.versionId = versionId
                 THEN <<hp1, st[2]>>
                 ELSE <<hp1, Append(st[2], Warning(ver.name, sym1.versionId, versionId))>>

RECURSIVE AssignExactLoop(_, _, _, _, _)
AssignExactLoop(st, syms, ver, versionId, includeNonDefault) ==
    IF syms = << >> THEN st
    ELSE AssignExactLoop(AssignExactOne(st, Head(syms), ver, versionId, includeNonDefault),
                         Tail(syms), ver, versionId, includeNonDefault)

\* assignExactVersion: the heap and the warnings afterwards, and its result.
AssignExactVersion(m, vec, hp, ver, versionId, includeNonDefault) ==
    LET syms == FindByVersion(m, vec, hp, ver)
        st == AssignExactLoop(<<hp, << >> >>, syms, ver, versionId, includeNonDefault)
    IN  [heap |-> st[1], warnings |-> st[2], found |-> syms # << >>]

\* One round of the loop of assignWildcardVersion (lines 249-253).
MutWildcardOneOverwrites(hp, addr, versionId) ==
    [hp EXCEPT ![addr] = [@ EXCEPT !.verdefIndex = 0, !.versionId = versionId]]

AssignWildcardOne(hp, addr, versionId) ==
    IF hp[addr].verdefIndex = Unassigned
    THEN [hp EXCEPT ![addr] = [@ EXCEPT !.verdefIndex = 0, !.versionId = versionId]]
    ELSE hp

RECURSIVE AssignWildcardLoop(_, _, _)
AssignWildcardLoop(hp, syms, versionId) ==
    IF syms = << >> THEN hp
    ELSE AssignWildcardLoop(AssignWildcardOne(hp, Head(syms), versionId),
                            Tail(syms), versionId)

AssignWildcardVersion(vec, hp, ver, versionId, includeNonDefault) ==
    AssignWildcardLoop(hp, FindAllByVersion(vec, hp, ver, includeNonDefault), versionId)

\* pat.name + "@" + version name
WithVersion(patName, verName) == patName \o <<At>> \o verName

\* The lambda assignExact (lines 267-277) for one rule: the pattern as it
\* stands, then the pattern with "@<name of the block>" appended.
MutAssignExactIgnoresOverride(m, vec, hp, rule, undefinedVersion) ==
    LET r1 == AssignExactVersion(m, vec, hp, rule.pat, rule.id, FALSE)
        r2 == AssignExactVersion(m, vec, r1.heap,
                                 [name |-> WithVersion(rule.pat.name, rule.block),
                                  hasWildcard |-> FALSE],
                                 rule.id, TRUE)
        found == r1.found \/ r2.found
    IN  [ heap |-> r2.heap,
          diags |-> r1.warnings \o r2.warnings \o
                    (IF ~found
                     THEN <<ErrorNotDefined(rule.pat.name, rule.ver)>>
                     ELSE << >>) ]

AssignExact(m, vec, hp, rule, undefinedVersion) ==
    LET r1 == AssignExactVersion(m, vec, hp, rule.pat, rule.id, FALSE)
        r2 == AssignExactVersion(m, vec, r1.heap,
                                 [name |-> WithVersion(rule.pat.name, rule.block),
                                  hasWildcard |-> FALSE],
                                 rule.id, TRUE)
        found == r1.found \/ r2.found
    IN  [ heap |-> r2.heap,
          diags |-> r1.warnings \o r2.warnings \o
                    (IF ~found /\ ~undefinedVersion
                     THEN <<ErrorNotDefined(rule.pat.name, rule.ver)>>
                     ELSE << >>) ]

\* The lambda assignWildcard (lines 289-296) for one rule.
AssignWildcard(vec, hp, rule) ==
    LET h1 == AssignWildcardVersion(vec, hp, rule.pat, rule.id, FALSE)
    IN  AssignWildcardVersion(vec, h1,
                              [name |-> WithVersion(rule.pat.name, rule.ver),
                               hasWildcard |-> TRUE],
                              rule.id, TRUE)

----------------------------------------------------------------------------
(* Version scripts: the rules of the three passes, in the order applied *)

LocalName == <<"l", "o", "c", "a", "l">>

\* A rule is one call of assignExact or assignWildcard: the pattern, the
\* version id, the StringRef handed over as ver, and the name of the block.
RuleOf(pat, id, ver, v) == [pat |-> pat, id |-> id, ver |-> ver, block |-> v.name, blockId |-> v.id]

RECURSIVE RulesOfList(_, _, _, _)
RulesOfList(pats, id, ver, v) ==
    IF pats = << >> THEN << >>
    ELSE <<RuleOf(Head(pats), id, ver, v)>> \o RulesOfList(Tail(pats), id, ver, v)

IsExactPat(pat) == ~pat.hasWildcard
MutIsWildPatTakesStar(pat) == pat.hasWildcard

IsWildPat(pat) == pat.hasWildcard /\ pat.name # <<Star>>
IsStarPat(pat) == pat.hasWildcard /\ pat.name = <<Star>>

\* Lines 278-283 for one block.
MutExactRulesOfLocalFirst(v) ==
    RulesOfList(SelectSeq(v.localPatterns, IsExactPat), VER_NDX_LOCAL, LocalName, v)
    \o RulesOfList(SelectSeq(v.nonLocalPatterns, IsExactPat), v.id, v.name, v)

ExactRulesOf(v) ==
    RulesOfList(SelectSeq(v.nonLocalPatterns, IsExactPat), v.id, v.name, v)
    \o RulesOfList(SelectSeq(v.localPatterns, IsExactPat), VER_NDX_LOCAL, LocalName, v)

\* Lines 298-303 for one block.
WildRulesOf(v) ==
    RulesOfList(SelectSeq(v.nonLocalPatterns, IsWildPat), v.id, v.name, v)
    \o RulesOfList(SelectSeq(v.localPatterns, IsWildPat), VER_NDX_LOCAL, v.name, v)

\* Lines 309-314 for one block.
StarRulesOf(v) ==
    RulesOfList(SelectSeq(v.nonLocalPatterns, IsStarPat), v.id, v.name, v)
    \o RulesOfList(SelectSeq(v.localPatterns, IsStarPat), VER_NDX_LOCAL, v.name, v)

Reverse(seq) == [i \in 1..Len(seq) |-> seq[Len(seq) + 1 - i]]

RECURSIVE ExactRulesFrom(_, _)
ExactRulesFrom(defs, i) ==
    IF i > Len(defs) THEN << >> ELSE ExactRulesOf(defs[i]) \o ExactRulesFrom(defs, i + 1)

RECURSIVE WildRulesFrom(_, _)
WildRulesFrom(defs, i) ==
    IF i > Len(defs) THEN << >> ELSE WildRulesOf(defs[i]) \o WildRulesFrom(defs, i + 1)

RECURSIVE StarRulesFrom(_, _)
StarRulesFrom(defs, i) ==
    IF i > Len(defs) THEN << >> ELSE StarRulesOf(defs[i]) \o StarRulesFrom(defs, i + 1)

\* The first loop (line 266): the definitions in script order.
ExactRules(defs) == ExactRulesFrom(defs, 1)

\* The second loop (line 297): the definitions in reverse order.
MutWildRulesForward(defs) == WildRulesFrom(defs, 1)

WildRules(defs) == WildRulesFrom(Reverse(defs), 1)

\* The third loop (line 308): the definitions in script order.
StarRules(defs) == StarRulesFrom(defs, 1)

----------------------------------------------------------------------------
(* scanVersionScript *)

\* Symbol::parseSymbolVersion as the specification describes it: a name that
\* embeds "@<version>" is cut before the '@'; the version id stays.
ParseSymbolVersion(sym) ==
    LET pos == StrFind(sym.name, At)
    IN  IF pos = NPOS THEN sym ELSE [sym EXCEPT !.name = TakeFront(sym.name, pos)]

ParseAll(vec, hp) ==
    [a \in DOMAIN hp |->
        IF \E i \in 1..Len(vec) : vec[i] = a THEN ParseSymbolVersion(hp[a]) ELSE hp[a]]

RECURSIVE MarkDynamic(_, _)
MarkDynamic(hp, syms) ==
    IF syms = << >> THEN hp
    ELSE MarkDynamic([hp EXCEPT ![Head(syms)] = [@ EXCEPT !.inDynamicList = TRUE]],
                     Tail(syms))

\* handleDynamicList (lines 191-202).
RECURSIVE HandleDynamicList(_, _, _, _)
HandleDynamicList(m, vec, hp, list) ==
    IF list = << >> THEN hp
    ELSE LET ver == Head(list)
             syms == IF ver.hasWildcard
                     THEN FindAllByVersion(vec, hp, ver, TRUE)
                     ELSE FindByVersion(m, vec, hp, ver)
         IN  HandleDynamicList(m, vec, MarkDynamic(hp, syms), Tail(list))

ScanFrame ==
    UNCHANGED <<symMap, symVector, call, nWraps, config, demangledSyms>> /\ UNCHANGED cgVars

\* One round of the first loop: the next exact rule.
ScanExact ==
    /\ scanPass = 1
    /\ scanPos <= Len(ExactRules(config.versionDefinitions))
    /\ LET r == AssignExact(symMap, symVector, heap,
                            ExactRules(config.versionDefinitions)[scanPos],
                            config.undefinedVersion)
       IN  /\ heap' = r.heap
           /\ diags' = diags \o r.diags
    /\ scanPos' = scanPos + 1
    /\ scanPass' = scanPass
    /\ ScanFrame

\* One round of the second loop: the next wildcard rule that is not "*".
ScanWildcard ==
    /\ scanPass = 2
    /\ scanPos <= Len(WildRules(config.versionDefinitions))
    /\ heap' = AssignWildcard(symVector, heap, WildRules(config.versionDefinitions)[scanPos])
    /\ scanPos' = scanPos + 1
    /\ scanPass' = scanPass
    /\ UNCHANGED diags
    /\ ScanFrame

\* One round of the third loop: the next "*" rule.
ScanStar ==
    /\ scanPass = 3
    /\ scanPos <= Len(StarRules(config.versionDefinitions))
    /\ heap' = AssignWildcard(symVector, heap, StarRules(config.versionDefinitions)[scanPos])
    /\ scanPos' = scanPos + 1
    /\ scanPass' = scanPass
    /\ UNCHANGED diags
    /\ ScanFrame

\* The rules of the pass the scan is in.
PassRules(pass, defs) ==
    IF pass = 1 THEN ExactRules(defs)
    ELSE IF pass = 2 THEN WildRules(defs)
    ELSE StarRules(defs)

\* A loop has run out of rules: the next loop starts.
ScanNextPass ==
    /\ scanPass \in {1, 2}
    /\ scanPos > Len(PassRules(scanPass, config.versionDefinitions))
    /\ scanPass' = scanPass + 1
    /\ scanPos' = 1
    /\ UNCHANGED <<heap, diags>>
    /\ ScanFrame

\* Lines 320-327: the symbols parse their names, then the dynamic list.
ScanFinish ==
    /\ scanPass = 3
    /\ scanPos > Len(StarRules(config.versionDefinitions))
    /\ heap' = HandleDynamicList(symMap, symVector, ParseAll(symVector, heap),
                                 config.dynamicList)
    /\ scanPass' = 4
    /\ scanPos' = 1
    /\ UNCHANGED diags
    /\ ScanFrame

----------------------------------------------------------------------------
(* scanVersionScript on the tables and scripts of the model *)

\* The symbols of the input files, in the order the files mention them.
ScanTableNames == << <<"a">>, <<"a", "b">>, <<"a", "@", "v">> >>

ScanKinds == {"Undefined", "Defined", "Lazy"}

\* A symbol as the input files left it: resolved, no version assigned.
ScanRecords(name) ==
    { [NewPlaceholder(name) EXCEPT !.symbolKind = k] : k \in ScanKinds }

\* The names of the version definitions of the script; the i-th gets the
\* version id VER_NDX_GLOBAL + i.
VersionNames == << <<"v">>, <<"w">> >>

PatNames == { <<"a">>, <<"a", Star>>, <<Star>> }

Patterns == { SymbolVersion(n) : n \in PatNames }

\* The pattern lists of at most n patterns.
RECURSIVE PatLists(_)
PatLists(n) ==
    IF n = 0 THEN { << >> }
    ELSE PatLists(n - 1) \cup
         { Append(l, p) : l \in { x \in PatLists(n - 1) : Len(x) = n - 1 }, p \in Patterns }

\* The local: lists of the scripts of the model.
LocalLists == { << >> } \cup { <<p>> : p \in Patterns }

DynamicLists == { <<SymbolVersion(<<"a", Star>>)>> }

VersionDefinition(i, nonLocal, local) ==
    [ id |-> VER_NDX_GLOBAL + i, name |-> VersionNames[i],
      nonLocalPatterns |-> nonLocal, localPatterns |-> local ]

InitScan ==
    /\ symMap = TableMap(ScanTableNames)
    /\ symVector = TableVector(ScanTableNames)
    /\ \E r1 \in ScanRecords(ScanTableNames[1]),
          r2 \in ScanRecords(ScanTableNames[2]),
          r3 \in ScanRecords(ScanTableNames[3]) :
          heap = <<r1, r2, r3>>
    /\ \E g1 \in PatLists(MaxPats), g2 \in PatLists(MaxPats),
          l1 \in LocalLists, l2 \in LocalLists,
          dyn \in DynamicLists, undef \in BOOLEAN :
          config = [ versionDefinitions |->
                        << VersionDefinition(1, g1, l1), VersionDefinition(2, g2, l2) >>,
                     dynamicList |-> dyn,
                     undefinedVersion |-> undef ]
    /\ call = CallOf("none", NoName, NullHandle)
    /\ nWraps = 0
    /\ diags = << >>
    /\ scanPass = 1
    /\ scanPos = 1
    /\ demangledSyms = NoDemangledSyms
    /\ NoCallGraphSort

NextScan ==
    \/ ScanExact
    \/ ScanWildcard
    \/ ScanStar
    \/ ScanNextPass
    \/ ScanFinish

SpecScan == InitScan /\ [][NextScan]_vars

----------------------------------------------------------------------------
(* Call-graph sort (lld/ELF/CallGraphSort.cpp): clusters *)

\* Most edges in a call-graph profile.
MaxEdges == 2

MAX_DENSITY_DEGRADATION == 8

MAX_CLUSTER_SIZE == 1024 * 1024

\* bestPred.from of a cluster no edge leads to.
NoPred == -1

\* The constructor Cluster(sec, s) and the member initializers.
Cluster(sec, s) ==
    [ next |-> sec, prev |-> sec, size |-> s, weight |-> 0, initialWeight |-> 0,
      bestPred |-> [from |-> NoPred, weight |-> 0] ]

\* Cluster::getDensity as the fraction num / den; 0 for a cluster of size 0.
getDensity(c) ==
    IF c.size = 0 THEN [num |-> 0, den |-> 1] ELSE [num |-> c.weight, den |-> c.size]

\* The comparison of the two stable sorts: a.getDensity() > b.getDensity().
DensityGreater(a, b) ==
    getDensity(a).num * getDensity(b).den > getDensity(b).num * getDensity(a).den

\* isNewDensityBad(a, b).  newDensity is a quotient of doubles: with
\* a.size + b.size = 0 it is NaN or +infinity, and neither is less than the
\* finite a.getDensity() / 8.
MutDensityNeverBad(a, b) == FALSE

isNewDensityBad(a, b) ==
    IF a.size + b.size = 0
    THEN FALSE
    ELSE (a.weight + b.weight) * (getDensity(a).den * MAX_DENSITY_DEGRADATION)
            < getDensity(a).num * (a.size + b.size)

\* getLeader(leaders, v) with its path halving: the leader found and the
\* forest as the walk leaves it.
MutGetLeaderOneStep(ld, v) == [leaders |-> ld, v |-> ld[v + 1]]

RECURSIVE getLeader(_, _)
getLeader(ld, v) ==
    IF ld[v + 1] = v
    THEN [leaders |-> ld, v |-> v]
    ELSE LET ld1 == [ld EXCEPT ![v + 1] = ld[ld[v + 1] + 1]]
         IN  getLeader(ld1, ld1[v + 1])

\* mergeClusters(cs, into, intoIdx, from, fromIdx), statement by statement.
MutMergeClustersNoSplice(cs, intoIdx, fromIdx) ==
    LET c1 == [cs EXCEPT ![intoIdx + 1].size = @ + cs[fromIdx + 1].size,
                         ![intoIdx + 1].weight = @ + cs[fromIdx + 1].weight]
    IN  [c1 EXCEPT ![fromIdx + 1].size = 0, ![fromIdx + 1].weight = 0]

MutMergeClustersOneWay(cs, intoIdx, fromIdx) ==
    LET tail1 == cs[intoIdx + 1].prev
        tail2 == cs[fromIdx + 1].prev
        c2 == [cs EXCEPT ![tail2 + 1].next = intoIdx]
        c4 == [c2 EXCEPT ![tail1 + 1].next = fromIdx]
        c5 == [c4 EXCEPT ![intoIdx + 1].size = @ + c4[fromIdx + 1].size]
        c6 == [c5 EXCEPT ![intoIdx + 1].weight = @ + c5[fromIdx + 1].weight]
        c7 == [c6 EXCEPT ![fromIdx + 1].size = 0]
    IN  [c7 EXCEPT ![fromIdx + 1].weight = 0]

MutMergeClustersKeepsWeight(cs, intoIdx, fromIdx) ==
    LET tail1 == cs[intoIdx + 1].prev
        tail2 == cs[fromIdx + 1].prev
        c1 == [cs EXCEPT ![intoIdx + 1].prev = tail2]
        c2 == [c1 EXCEPT ![tail2 + 1].next = intoIdx]
        c3 == [c2 EXCEPT ![fromIdx + 1].prev = tail1]
        c4 == [c3 EXCEPT ![tail1 + 1].next = fromIdx]
        c5 == [c4 EXCEPT ![intoIdx + 1].size = @ + c4[fromIdx + 1].size]
        c6 == [c5 EXCEPT ![intoIdx + 1].weight = @ + c5[fromIdx + 1].weight]
    IN  [c6 EXCEPT ![fromIdx + 1].size = 0]

mergeClusters(cs, intoIdx, fromIdx) ==
    LET tail1 == cs[intoIdx + 1].prev
        tail2 == cs[fromIdx + 1].prev
        c1 == [cs EXCEPT ![intoIdx + 1].prev = tail2]
        c2 == [c1 EXCEPT ![tail2 + 1].next = intoIdx]
        c3 == [c2 EXCEPT ![fromIdx + 1].prev = tail1]
        c4 == [c3 EXCEPT ![tail1 + 1].next = fromIdx]
        c5 == [c4 EXCEPT ![intoIdx + 1].size = @ + c4[fromIdx + 1].size]
        c6 == [c5 EXCEPT ![intoIdx + 1].weight = @ + c5[fromIdx + 1].weight]
        c7 == [c6 EXCEPT ![fromIdx + 1].size = 0]
    IN  [c7 EXCEPT ![fromIdx + 1].weight = 0]

----------------------------------------------------------------------------
(* Call-graph sort: the constructor *)

MapPut(m, key, val) ==
    [k \in DOMAIN m \cup {key} |-> IF k = key THEN val ELSE m[k]]

\* The lambda getOrCreateNode (lines 106-113) on the graph g =
\* [secToCluster, sections, clusters]: the graph afterwards and the node.
MutGetOrCreateNodeAlwaysCreates(g, isec, isecs) ==
    [ g |-> [ secToCluster |-> MapPut(g.secToCluster, isec, Len(g.clusters)),
              sections |-> Append(g.sections, isec),
              clusters |-> Append(g.clusters,
                                  Cluster(Len(g.clusters), isecs[isec].size)) ],
      node |-> Len(g.clusters) ]

getOrCreateNode(g, isec, isecs) ==
    IF isec \in DOMAIN g.secToCluster
    THEN [g |-> g, node |-> g.secToCluster[isec]]
    ELSE [ g |-> [ secToCluster |-> MapPut(g.secToCluster, isec, Len(g.clusters)),
                   sections |-> Append(g.sections, isec),
                   clusters |-> Append(g.clusters,
                                       Cluster(Len(g.clusters), isecs[isec].size)) ],
           node |-> Len(g.clusters) ]

\* "Remember the best edge" (lines 139-143).
MutRememberFirstEdge(toC, from, weight) ==
    IF toC.bestPred.from = NoPred
    THEN [toC EXCEPT !.bestPred = [from |-> from, weight |-> weight]]
    ELSE toC

MutRememberLastBestEdge(toC, from, weight) ==
    IF toC.bestPred.from = NoPred \/ toC.bestPred.weight <= weight
    THEN [toC EXCEPT !.bestPred = [from |-> from, weight |-> weight]]
    ELSE toC

RememberBestEdge(toC, from, weight) ==
    IF toC.bestPred.from = NoPred \/ toC.bestPred.weight < weight
    THEN [toC EXCEPT !.bestPred = [from |-> from, weight |-> weight]]
    ELSE toC

\* One round of the loop over the profile (lines 116-144) for the edge c.
MutAddEdgeAcrossOutputSections(g, c, isecs) ==
    LET r1 == getOrCreateNode(g, c.from, isecs)
        r2 == getOrCreateNode(r1.g, c.to, isecs)
        from == r1.node
        to == r2.node
        cs1 == [r2.g.clusters EXCEPT ![to + 1].weight = @ + c.weight]
    IN  IF from = to
        THEN [r2.g EXCEPT !.clusters = cs1]
        ELSE [r2.g EXCEPT !.clusters =
                 [cs1 EXCEPT ![to + 1] = RememberBestEdge(@, from, c.weight)]]

AddEdge(g, c, isecs) ==
    IF isecs[c.from].out # isecs[c.to].out
    THEN g
    ELSE LET r1 == getOrCreateNode(g, c.from, isecs)
             r2 == getOrCreateNode(r1.g, c.to, isecs)
             from == r1.node
             to == r2.node
             cs1 == [r2.g.clusters EXCEPT ![to + 1].weight = @ + c.weight]
         IN  IF from = to
             THEN [r2.g EXCEPT !.clusters = cs1]
             ELSE [r2.g EXCEPT !.clusters =
                      [cs1 EXCEPT ![to + 1] = RememberBestEdge(@, from, c.weight)]]

\* What the table operations leave alone.
TableFrame ==
    UNCHANGED <<symMap, symVector, heap, nWraps, scanPass, scanPos, demangledSyms>>

\* The constructor takes the next edge of config->callGraphProfile.
CgAddEdge ==
    /\ cgPc = "build"
    /\ cgPos <= Len(config.callGraphProfile)
    /\ LET g == AddEdge([secToCluster |-> secToCluster, sections |-> sections,
                         clusters |-> clusters],
                        config.callGraphProfile[cgPos], inputSections)
       IN  /\ secToCluster' = g.secToCluster
           /\ sections' = g.sections
           /\ clusters' = g.clusters
    /\ cgPos' = cgPos + 1
    /\ UNCHANGED <<cgPc, leaders, sorted, orderMap, inputSections, config, diags, call>>
    /\ TableFrame

\* The end of the constructor (lines 145-146).
CgInitialWeights ==
    /\ cgPc = "build"
    /\ cgPos > Len(config.callGraphProfile)
    /\ clusters' = [i \in 1..Len(clusters) |->
                       [clusters[i] EXCEPT !.initialWeight = clusters[i].weight]]
    /\ cgPc' = "run"
    /\ cgPos' = 1
    /\ UNCHANGED <<secToCluster, sections, leaders, sorted, orderMap, inputSections,
                   config, diags, call>>
    /\ TableFrame

----------------------------------------------------------------------------
(* Call-graph sort: run() *)

\* std::iota(first, last, 0) on a vector of n elements.
Iota(n) == [i \in 1..n |-> i - 1]

\* llvm::stable_sort by descending density: every element is put in front of
\* the first one it is denser than, so equal densities keep their order.
RECURSIVE InsertByDensity(_, _, _)
InsertByDensity(seq, x, cs) ==
    IF seq = << >> THEN <<x>>
    ELSE IF DensityGreater(cs[x + 1], cs[Head(seq) + 1])
         THEN <<x>> \o seq
         ELSE <<Head(seq)>> \o InsertByDensity(Tail(seq), x, cs)

RECURSIVE SortFrom(_, _, _)
SortFrom(done, rest, cs) ==
    IF rest = << >> THEN done
    ELSE SortFrom(InsertByDensity(done, Head(rest), cs), Tail(rest), cs)

MutUnsorted(seq, cs) == seq

StableSortByDensity(seq, cs) == SortFrom(<< >>, seq, cs)

\* Lines 182-189: leaders and sorted are set up.
CgSort ==
    /\ cgPc = "run"
    /\ leaders' = Iota(Len(clusters))
    /\ sorted' = StableSortByDensity(Iota(Len(clusters)), clusters)
    /\ cgPc' = "merge"
    /\ cgPos' = 1
    /\ UNCHANGED <<clusters, secToCluster, sections, orderMap, inputSections,
                   config, diags, call>>
    /\ TableFrame

\* "Don't consider merging if the edge is unlikely" (line 197), for weights
\* below 2^64 / 10, where the product does not wrap; EdgeUnlikelyU64 below is
\* the test at the width of uint64_t.
EdgeUnlikely(c) ==
    c.bestPred.from = NoPred \/ c.bestPred.weight * 10 <= c.initialWeight

\* The size test of line 205.
MutNeverTooBig(c, predC) == FALSE

TooBig(c, predC) == c.size + predC.size > MAX_CLUSTER_SIZE

\* One round of the loop over sorted (lines 191-213) for the cluster l.
MutVisitRecomputesPredecessor(cs, ld, l) ==
    LET c == cs[l + 1]
    IN  IF EdgeUnlikely(c)
        THEN [clusters |-> cs, leaders |-> ld]
        ELSE LET r == getLeader(ld, c.bestPred.from)
                 predL == r.v
             IN  IF l = predL
                 THEN [clusters |-> cs, leaders |-> r.leaders]
                 ELSE IF TooBig(c, cs[predL + 1])
                 THEN [clusters |-> cs, leaders |-> r.leaders]
                 ELSE IF isNewDensityBad(cs[predL + 1], c)
                 THEN [clusters |-> cs, leaders |-> r.leaders]
                 ELSE [ clusters |->
                            [mergeClusters(cs, predL, l) EXCEPT
                                ![predL + 1].initialWeight = @ + c.initialWeight,
                                ![l + 1].bestPred = [from |-> predL, weight |-> c.bestPred.weight]],
                        leaders |-> [r.leaders EXCEPT ![l + 1] = predL] ]

Visit(cs, ld, l) ==
    LET c == cs[l + 1]
    IN  IF EdgeUnlikely(c)
        THEN [clusters |-> cs, leaders |-> ld]
        ELSE LET r == getLeader(ld, c.bestPred.from)
                 predL == r.v
             IN  IF l = predL
                 THEN [clusters |-> cs, leaders |-> r.leaders]
                 ELSE IF TooBig(c, cs[predL + 1])
                 THEN [clusters |-> cs, leaders |-> r.leaders]
                 ELSE IF isNewDensityBad(cs[predL + 1], c)
                 THEN [clusters |-> cs, leaders |-> r.leaders]
                 ELSE [ clusters |-> mergeClusters(cs, predL, l),
                        leaders |-> [r.leaders EXCEPT ![l + 1] = predL] ]

CgVisit ==
    /\ cgPc = "merge"
    /\ cgPos <= Len(sorted)
    /\ LET r == Visit(clusters, leaders, sorted[cgPos])
       IN  /\ clusters' = r.clusters
           /\ leaders' = r.leaders
    /\ cgPos' = cgPos + 1
    /\ UNCHANGED <<cgPc, secToCluster, sections, sorted, orderMap, inputSections,
                   config, diags, call>>
    /\ TableFrame

\* Lines 216-219: the clusters of size > 0, in index order.
NonEmpty(cs) ==
    LET Keep(i) == cs[i + 1].size > 0
    IN  SelectSeq(Iota(Len(cs)), Keep)

\* The inner loop of lines 227-232: the nodes from i round to leader.  The
\* bound n ends the walk of a chain that does not come back to leader.
RECURSIVE WalkFrom(_, _, _, _)
WalkFrom(cs, leader, i, n) ==
    IF n = 0 THEN << >>
    ELSE <<i>> \o (IF cs[i + 1].next = leader
                   THEN << >>
                   ELSE WalkFrom(cs, leader, cs[i + 1].next, n - 1))

Walk(cs, leader) == WalkFrom(cs, leader, leader, Len(cs))

\* The nodes in the order lines 226-233 come by them.
RECURSIVE WalkAll(_, _)
WalkAll(cs, srt) ==
    IF srt = << >> THEN << >> ELSE Walk(cs, Head(srt)) \o WalkAll(cs, Tail(srt))

\* orderMap[sections[i]] = curOrder++ for the nodes in turn.
RECURSIVE AssignOrder(_, _, _, _)
AssignOrder(map, nodes, secs, curOrder) ==
    IF nodes = << >> THEN map
    ELSE AssignOrder(MapPut(map, secs[Head(nodes) + 1], curOrder),
                     Tail(nodes), secs, curOrder + 1)

MutOrderFromZero(cs, secs, srt) == AssignOrder(<< >>, WalkAll(cs, srt), secs, 0)

OrderMapOf(cs, secs, srt) == AssignOrder(<< >>, WalkAll(cs, srt), secs, 1)

\* The loop over sorted has ended: lines 216-233.
CgOrder ==
    /\ cgPc = "merge"
    /\ cgPos > Len(sorted)
    /\ sorted' = StableSortByDensity(NonEmpty(clusters), clusters)
    /\ orderMap' = OrderMapOf(clusters, sections, sorted')
    /\ cgPc' = "dump"
    /\ cgPos' = 1
    /\ UNCHANGED <<clusters, leaders, secToCluster, sections, inputSections,
                   config, diags, call>>
    /\ TableFrame

\* error("cannot open " + config->printSymbolOrder + ": " + ec.message())
CannotOpen == [kind |-> "error", name |-> "cannot open", from |-> 0, to |-> 0]

\* What run() hands back, and what it wrote to the symbol-order file: one
\* line for each section, every section holding one Defined symbol of its name.
MutReturnOf(map, printSymbolOrder, ec, os) ==
    [ op |-> "run", name |-> NoName,
      ret |-> IF printSymbolOrder /\ ec THEN << >> ELSE map,
      sym |-> 0, real |-> 0, wrap |-> 0,
      printSymbolOrder |-> printSymbolOrder, ec |-> ec, os |-> os ]

ReturnOf(map, printSymbolOrder, ec, os) ==
    [ op |-> "run", name |-> NoName, ret |-> map, sym |-> 0, real |-> 0, wrap |-> 0,
      printSymbolOrder |-> printSymbolOrder, ec |-> ec, os |-> os ]

\* Lines 234-259.  printSymbolOrder: config->printSymbolOrder is not empty;
\* ec: the file could not be opened.
CgDump(printSymbolOrder, ec) ==
    /\ cgPc = "dump"
    /\ ~printSymbolOrder => ~ec
    /\ diags' = IF printSymbolOrder /\ ec THEN Append(diags, CannotOpen) ELSE diags
    /\ LET nodes == WalkAll(clusters, sorted)
           os == IF printSymbolOrder /\ ~ec
                 THEN [k \in 1..Len(nodes) |-> sections[nodes[k] + 1]]
                 ELSE << >>
       IN  call' = ReturnOf(orderMap, printSymbolOrder, ec, os)
    /\ cgPc' = "done"
    /\ UNCHANGED <<clusters, leaders, sorted, orderMap, secToCluster, sections,
                   inputSections, cgPos, config>>
    /\ TableFrame

----------------------------------------------------------------------------
(* Call-graph sort on the profiles of the model *)

\* The input sections the profile speaks of.
SectionSet == {"A", "B", "C"}

\* Section sizes: empty, small, and one byte short of the largest cluster.
SizeSet == {0, 1, MAX_CLUSTER_SIZE - 1}

WeightSet == {1, 11}

\* An edge of the profile after ->repl: from, to and the weight.
EdgeSet == [from : SectionSet, to : SectionSet, weight : WeightSet]

\* The profiles of at most n edges.
RECURSIVE Profiles(_)
Profiles(n) ==
    IF n = 0 THEN { << >> }
    ELSE Profiles(n - 1) \cup
         { Append(p, e) : p \in { x \in Profiles(n - 1) : Len(x) = n - 1 }, e \in EdgeSet }

\* A and B lie in .text; C lies in .text or in .data.
InputSections ==
    { [s \in SectionSet |-> [size |-> sz[s], out |-> IF s = "C" THEN o ELSE ".text"]]
      : sz \in [SectionSet -> SizeSet], o \in {".text", ".data"} }

InitCgs ==
    /\ symMap = << >>
    /\ symVector = << >>
    /\ heap = << >>
    /\ call = CallOf("none", NoName, NullHandle)
    /\ nWraps = 0
    /\ diags = << >>
    /\ scanPass = 0
    /\ scanPos = 0
    /\ demangledSyms = NoDemangledSyms
    /\ config \in { [callGraphProfile |-> p] : p \in Profiles(MaxEdges) }
    /\ inputSections \in InputSections
    /\ clusters = << >>
    /\ sections = << >>
    /\ secToCluster = << >>
    /\ leaders = << >>
    /\ sorted = << >>
    /\ orderMap = << >>
    /\ cgPc = "build"
    /\ cgPos = 1

NextCgs ==
    \/ CgAddEdge
    \/ CgInitialWeights
    \/ CgSort
    \/ CgVisit
    \/ CgOrder
    \/ \E printSymbolOrder \in BOOLEAN, ec \in BOOLEAN : CgDump(printSymbolOrder, ec)

SpecCgs == InitCgs /\ [][NextCgs]_vars

----------------------------------------------------------------------------
(* Call-graph sort: the whole computation as a function of the profile *)

\* The constructor (lines 102-147): the graph of the profile prof.
RECURSIVE AddEdges(_, _, _)
AddEdges(g, prof, isecs) ==
    IF prof = << >> THEN g ELSE AddEdges(AddEdge(g, Head(prof), isecs), Tail(prof), isecs)

CallGraphSort(prof, isecs) ==
    LET g == AddEdges([secToCluster |-> << >>, sections |-> << >>, clusters |-> << >>],
                      prof, isecs)
    IN  [g EXCEPT !.clusters = [i \in 1..Len(g.clusters) |->
                                   [g.clusters[i] EXCEPT !.initialWeight = g.clusters[i].weight]]]

\* The loop of lines 191-213 over the rest of sorted.
RECURSIVE VisitAll(_, _, _)
VisitAll(cs, ld, srt) ==
    IF srt = << >> THEN [clusters |-> cs, leaders |-> ld]
    ELSE LET r == Visit(cs, ld, Head(srt))
         IN  VisitAll(r.clusters, r.leaders, Tail(srt))

\* run() up to line 233: the order mapping of the graph g.
run(g) ==
    LET n == Len(g.clusters)
        r == VisitAll(g.clusters, Iota(n), StableSortByDensity(Iota(n), g.clusters))
    IN  OrderMapOf(r.clusters, g.sections, StableSortByDensity(NonEmpty(r.clusters), r.clusters))

\* computeCallGraphProfileOrder (lines 267-269): CallGraphSort().run().
computeCallGraphProfileOrder(prof, isecs) == run(CallGraphSort(prof, isecs))

----------------------------------------------------------------------------
(* Call-graph sort: weights at the width of uint64_t *)

\* A uint64_t is four digits to the base 2^16, the lowest first.
DigitBase == 2 ^ 16

U64Digits == 4

\* digits * m + carry, one digit longer than digits.
RECURSIVE MulDigits(_, _, _)
MulDigits(digits, m, carry) ==
    IF digits = << >> THEN <<carry>>
    ELSE LET p == Head(digits) * m + carry
         IN  <<p % DigitBase>> \o MulDigits(Tail(digits), m, p \div DigitBase)

\* a + b + carry for a and b of one length, one digit longer than they.
RECURSIVE AddDigits(_, _, _)
AddDigits(a, b, carry) ==
    IF a = << >> THEN <<carry>>
    ELSE LET t == Head(a) + Head(b) + carry
         IN  <<t % DigitBase>> \o AddDigits(Tail(a), Tail(b), t \div DigitBase)

\* a <= b for a and b of one length.
RECURSIVE LessEqDigits(_, _)
LessEqDigits(a, b) ==
    IF a = << >> THEN TRUE
    ELSE LET n == Len(a)
         IN  IF a[n] # b[n] THEN a[n] < b[n]
             ELSE LessEqDigits(SubSeq(a, 1, n - 1), SubSeq(b, 1, n - 1))

\* The conversion to uint64_t: the value modulo 2^64.
Trunc64(x) == SubSeq(x, 1, U64Digits)

\* uint64_t arithmetic: a * m and a + b; a <= b is LessEqDigits(a, b) and
\* a < b is ~LessEqDigits(b, a).
U64Mul(a, m) == Trunc64(MulDigits(a, m, 0))

U64Add(a, b) == Trunc64(AddDigits(a, b, 0))

\* The destination cluster of the edges: Cluster(sec, s) with its weights as
\* uint64_t (lines 72-74).
ClusterU64 ==
    [ weight |-> <<0, 0, 0, 0>>, initialWeight |-> <<0, 0, 0, 0>>,
      bestPred |-> [from |-> NoPred, weight |-> <<0, 0, 0, 0>>] ]

\* One round of the constructor's loop (lines 133-143) for an edge into the
\* cluster toC with node number to.
AddEdgeU64(toC, to, from, weight) ==
    LET c1 == [toC EXCEPT !.weight = U64Add(@, weight)]
    IN  IF from = to THEN c1
        ELSE IF c1.bestPred.from = NoPred \/ ~LessEqDigits(weight, c1.bestPred.weight)
        THEN [c1 EXCEPT !.bestPred = [from |-> from, weight |-> weight]]
        ELSE c1

\* The test of line 197 as uint64_t computes it.
MutEdgeUnlikelyUnbounded(c) ==
    \/ c.bestPred.from = NoPred
    \/ LessEqDigits(MulDigits(c.bestPred.weight, 10, 0), c.initialWeight \o <<0>>)

EdgeUnlikelyU64(c) ==
    c.bestPred.from = NoPred \/ LessEqDigits(U64Mul(c.bestPred.weight, 10), c.initialWeight)

\* The profiles of at most MaxWideEdges edges into the node 0, from the nodes
\* 0, 1 and 2, with weights at and around the places where uint64_t wraps.
MaxWideEdges == 2

\* The weights 1 and 10; (2^64 - 1) \div 10 = 0x1999999999999999, the greatest
\* weight whose tenfold is a uint64_t, and the weight above it; 2^63; and
\* 2^64 - 1.
WideWeights ==
    { <<1, 0, 0, 0>>, <<10, 0, 0, 0>>,
      <<39321, 39321, 39321, 6553>>, <<39322, 39321, 39321, 6553>>,
      <<0, 0, 0, 32768>>,
      <<65535, 65535, 65535, 65535>> }

RECURSIVE WideProfiles(_)
WideProfiles(n) ==
    IF n = 0 THEN { << >> }
    ELSE WideProfiles(n - 1) \cup
         { Append(p, e) : p \in { x \in WideProfiles(n - 1) : Len(x) = n - 1 },
                          e \in [from : 0..2, weight : WideWeights] }

InitWide ==
    /\ symMap = << >>
    /\ symVector = << >>
    /\ heap = << >>
    /\ call = CallOf("none", NoName, NullHandle)
    /\ nWraps = 0
    /\ diags = << >>
    /\ scanPass = 0
    /\ scanPos = 0
    /\ demangledSyms = NoDemangledSyms
    /\ config \in { [callGraphProfile |-> p] : p \in WideProfiles(MaxWideEdges) }
    /\ inputSections = << >>
    /\ clusters = <<ClusterU64>>
    /\ sections = << >>
    /\ secToCluster = << >>
    /\ leaders = << >>
    /\ sorted = << >>
    /\ orderMap = << >>
    /\ cgPc = "build"
    /\ cgPos = 1

WideFrame ==
    /\ UNCHANGED <<secToCluster, sections, leaders, sorted, orderMap, inputSections,
                   config, diags>>
    /\ TableFrame

\* The constructor takes the next edge into the cluster.
WideAddEdge ==
    /\ cgPc = "build"
    /\ cgPos <= Len(config.callGraphProfile)
    /\ LET e == config.callGraphProfile[cgPos]
       IN  clusters' = <<AddEdgeU64(clusters[1], 0, e.from, e.weight)>>
    /\ cgPos' = cgPos + 1
    /\ UNCHANGED <<cgPc, call>>
    /\ WideFrame

\* The end of the constructor (lines 145-146).
WideInitialWeights ==
    /\ cgPc = "build"
    /\ cgPos > Len(config.callGraphProfile)
    /\ clusters' = <<[clusters[1] EXCEPT !.initialWeight = clusters[1].weight]>>
    /\ cgPc' = "merge"
    /\ UNCHANGED <<cgPos, call>>
    /\ WideFrame

\* The visit of the cluster in Phase B, up to the test of line 197: ret is
\* TRUE when the loop continues with the next cluster.
WideVisit ==
    /\ cgPc = "merge"
    /\ call' = [ op |-> "edgeUnlikely", name |-> NoName,
                 ret |-> EdgeUnlikelyU64(clusters[1]), sym |-> 0, real |-> 0, wrap |-> 0 ]
    /\ cgPc' = "done"
    /\ UNCHANGED <<clusters, cgPos>>
    /\ WideFrame

NextWide == WideAddEdge \/ WideInitialWeights \/ WideVisit

SpecWide == InitWide /\ [][NextWide]_vars

----------------------------------------------------------------------------
(* Properties of insert, find and the record vector *)

IsPrefixOf(short, long) ==
    /\ Len(short) <= Len(long)
    /\ \A i \in 1..Len(short) : long[i] = short[i]

\* long is base followed by "@@" and a version, base holding no '@'.
IsDefaultVersionOf(long, base) ==
    /\ StrFind(base, At) = NPOS
    /\ Len(long) >= Len(base) + 2
    /\ IsPrefixOf(base, long)
    /\ long[Len(base) + 1] = At
    /\ long[Len(base) + 2] = At

\* long is base followed by a single '@' and a version, base holding no '@'.
IsNonDefaultVersionOf(long, base) ==
    /\ StrFind(base, At) = NPOS
    /\ Len(long) >= Len(base) + 1
    /\ IsPrefixOf(base, long)
    /\ long[Len(base) + 1] = At
    /\ (Len(long) >= Len(base) + 2 => long[Len(base) + 2] # At)

\* C1: insert is idempotent.  An insert that follows an insert of the same
\* name returns the same handle and allocates nothing, and every insert that
\* allocates no record (a hit) leaves the record vector, the name index and
\* every field of every record as they were.
C1_InsertIdempotent ==
    [][ /\ (call.op = "insert" /\ call'.op = "insert" /\ call'.name = call.name)
            => /\ call'.ret = call.ret
               /\ Len(symVector') = Len(symVector)
               /\ Len(heap') = Len(heap)
        /\ (call'.op = "insert" /\ Len(symVector') = Len(symVector))
            => /\ heap' = heap
               /\ symVector' = symVector
               /\ symMap' = symMap ]_vars

\* An insert has just returned a record that was resolved before.
C1_Witness ==
    /\ call.op = "insert"
    /\ ~isPlaceholder(RecAt(symVector, heap, call.ret))

\* C2: insert normalizes a default-version name.  Two inserts in a row of
\* b and b@@v, in either order, return the same handle and the second
\* allocates nothing; no name b@@v is ever a key of the index.  A name b@v is
\* its own key: inserting it binds b@v itself, creates a record of that name
\* when it was unbound, and (while no wrap has rebound names) its handle
\* differs from the handle of b.
C2_DefaultVersionNormalized ==
    [][ /\ (call.op = "insert" /\ call'.op = "insert"
             /\ (\/ IsDefaultVersionOf(call.name, call'.name)
                 \/ IsDefaultVersionOf(call'.name, call.name)))
            => /\ call'.ret = call.ret
               /\ Len(symVector') = Len(symVector)
        /\ \A k \in DOMAIN symMap' : \A b \in NameSet : ~IsDefaultVersionOf(k, b)
        /\ (call'.op = "insert" /\ \E b \in NameSet : IsNonDefaultVersionOf(call'.name, b))
            => /\ call'.name \in DOMAIN symMap'
               /\ symMap'[call'.name] = call'.ret
               /\ call'.name \notin DOMAIN symMap
                    => /\ Len(symVector') = Len(symVector) + 1
                       /\ RecAt(symVector', heap', call'.ret).name = call'.name
        /\ (call.op = "insert" /\ call'.op = "insert" /\ nWraps = 0
             /\ (\/ IsNonDefaultVersionOf(call.name, call'.name)
                 \/ IsNonDefaultVersionOf(call'.name, call.name)))
            => call'.ret # call.ret ]_vars

\* b@@v has just been inserted and got the handle of a record named b that
\* existed before, while b@v has a record of its own.
C2_Witness ==
    /\ call.op = "insert"
    /\ \E b \in NameSet :
          /\ IsDefaultVersionOf(call.name, b)
          /\ RecAt(symVector, heap, call.ret).name = b
          /\ ~isPlaceholder(RecAt(symVector, heap, call.ret))
          /\ \E k \in DOMAIN symMap : IsNonDefaultVersionOf(k, b) /\ symMap[k] # call.ret

\* C3: handles are stable.  In every step the record vector keeps every slot
\* it had, pointing at the same record object; it grows by at most one slot,
\* and the handle of the new record is the number of records there were.  No
\* two handles share a record object.
C3_HandlesStable ==
    [][ /\ IsPrefixOf(symVector, symVector')
        /\ Len(symVector') <= Len(symVector) + 1
        /\ Len(symVector') = Len(symVector) + 1
             => /\ call'.op \in {"insert", "addSymbol"}
                /\ call'.ret = Len(symVector)
        /\ \A i, j \in 1..Len(symVector') : symVector'[i] = symVector'[j] => i = j ]_vars

\* After three records were created and a wrap was made, addSymbol has
\* returned the handle of the third record.
C3_Witness ==
    /\ nWraps > 0
    /\ call.op = "addSymbol"
    /\ call.ret = 2
    /\ Len(symVector) = 3
    /\ symVector[3] = 3

\* C4: find returns a handle only for a bound name whose record is not a
\* placeholder, and then the bound handle; otherwise it returns not-found.  It
\* changes neither the name index nor a record nor the record vector.
C4_FindOnlyResolved ==
    [][ call'.op = "find"
        => /\ symMap' = symMap /\ symVector' = symVector /\ heap' = heap
           /\ call'.ret # NullHandle
                => /\ call'.name \in DOMAIN symMap
                   /\ call'.ret = symMap[call'.name]
                   /\ ~isPlaceholder(RecAt(symVector, heap, call'.ret))
           /\ call'.ret = NullHandle
                => \/ call'.name \notin DOMAIN symMap
                   \/ isPlaceholder(RecAt(symVector, heap, symMap[call'.name])) ]_vars

\* find has returned not-found for a name that is bound to a placeholder,
\* while another name is unbound.
C4_Witness ==
    /\ call.op = "find"
    /\ call.ret = NullHandle
    /\ call.name \in DOMAIN symMap
    /\ isPlaceholder(RecAt(symVector, heap, symMap[call.name]))
    /\ \E n \in NameSet : n \notin DOMAIN symMap

\* The names the three records of a wrap call carried when it was called.
WrapNames(hp, c) ==
    [sym |-> hp[c.sym].name, real |-> hp[c.real].name, wrap |-> hp[c.wrap].name]

\* The rebinding wrap is to make: sym's name takes the old binding of wrap's
\* name, real's name the old binding of sym's name, nothing else changes.
Rebound(old, new, n) ==
    /\ DOMAIN new = DOMAIN old
    /\ new[n.sym] = old[n.wrap]
    /\ new[n.real] = old[n.sym]
    /\ new[n.wrap] = old[n.wrap]
    /\ \A k \in DOMAIN old \ {n.sym, n.real, n.wrap} : new[k] = old[k]

\* C5: wrap rebinds names, not records.  After every wrap call sym's name is
\* bound to the handle wrap's name was bound to before, real's name to the
\* handle sym's name was bound to before, and the binding of wrap's name and
\* of every other name is unchanged; the record vector is not touched.
C5_WrapRebinds ==
    [][ call'.op = "wrap" /\ nWraps' = nWraps + 1
        => /\ Rebound(symMap, symMap', WrapNames(heap, call'))
           /\ symVector' = symVector ]_vars

\* A second wrap, of b, c and a@v, was made after one that had rebound b: the
\* name b is bound to the record of a@v and c to the record b was bound to.
C5_Witness ==
    /\ call.op = "wrap"
    /\ nWraps = 2
    /\ Len(heap) = 4
    /\ call.sym = 2 /\ call.real = 4 /\ call.wrap = 3
    /\ symMap[<<"b">>] = 2
    /\ symMap[LateName] # 3

\* The record a name is bound to.
Lookup(m, vec, hp, name) == RecAt(vec, hp, m[name])

\* C6 as stated: after wrap(a, b, c) a's name yields the content c's name
\* yielded before, and b's name yields every field of what a's record held
\* before, the two flags included.
C6_WrapContentAsStated ==
    [][ call'.op = "wrap" /\ nWraps' = nWraps + 1
        => LET n == WrapNames(heap, call')
           IN  /\ Lookup(symMap', symVector', heap', n.sym)
                    = Lookup(symMap, symVector, heap, n.wrap)
               /\ Lookup(symMap', symVector', heap', n.real) = heap[call'.sym] ]_vars

\* a's name is bound to a's record and c's name to a record that is neither
\* a's nor b's.
WrapBindingsOwn(m, vec, hp, c) ==
    /\ vec[m[hp[c.sym].name] + 1] = c.sym
    /\ vec[m[hp[c.wrap].name] + 1] \notin {c.sym, c.real}

\* C6, amended: when wrap(a, b, c) is called while a's name is bound to a's
\* record and c's name to a record other than a's and b's, then afterwards
\* a's name yields the content c's name yielded before, and b's name yields
\* a's record, each field as a held it before except exportDynamic, which is
\* a's old flag or b's old flag, and isUsedInRegularObj, which is cleared when
\* b was not used in a regular object and a is Undefined.
C6_WrapContent ==
    [][ (call'.op = "wrap" /\ nWraps' = nWraps + 1
         /\ WrapBindingsOwn(symMap, symVector, heap, call'))
        => LET n == WrapNames(heap, call')
               a == heap[call'.sym]
               b == heap[call'.real]
           IN  /\ Lookup(symMap', symVector', heap', n.sym)
                    = Lookup(symMap, symVector, heap, n.wrap)
               /\ Lookup(symMap', symVector', heap', n.real)
                    = [a EXCEPT !.exportDynamic = a.exportDynamic \/ b.exportDynamic,
                                !.isUsedInRegularObj =
                                    IF ~b.isUsedInRegularObj /\ a.symbolKind = "Undefined"
                                    THEN FALSE
                                    ELSE a.isUsedInRegularObj] ]_vars

\* The first wrap, of a, b and a@v: b's name now yields a's record, which took
\* over the exportDynamic flag; a's name yields the record of a@v.
C6_Witness ==
    /\ call.op = "wrap"
    /\ nWraps = 1
    /\ call.sym = 1 /\ call.real = 2 /\ call.wrap = 3
    /\ symMap[<<"b">>] = 0
    /\ symMap[<<"a">>] = 2
    /\ heap[1].exportDynamic
    /\ heap[1].symbolKind = "Undefined"
    /\ heap[3].symbolKind = "Defined"

----------------------------------------------------------------------------
(* Properties of scanVersionScript *)

\* The name a record was inserted under: the key bound to it.  (The record's
\* own name loses its "@<version>" when the scan ends.)
KeyOf(addr) == CHOOSE k \in DOMAIN symMap : symVector[symMap[k] + 1] = addr

Defs == config.versionDefinitions

SeqRange(seq) == { seq[i] : i \in 1..Len(seq) }

AllPatterns(v) == SeqRange(v.nonLocalPatterns) \cup SeqRange(v.localPatterns)

\* pat is an exact pattern that names nm, as it stands or with "@<block>".
ExactMatches(pat, v, nm) ==
    /\ ~pat.hasWildcard
    /\ (pat.name = nm \/ WithVersion(pat.name, v.name) = nm)

\* nm is <base>@@<version>.
HasDefaultVersion(nm) ==
    \E i \in 1..(Len(nm) - 1) :
        nm[i] = At /\ nm[i + 1] = At /\ \A j \in 1..(i - 1) : nm[j] # At

\* pat is a wildcard pattern that matches nm: as it stands when nm holds no
\* '@', or with "@<block>" appended when nm is not <base>@@<version>.
WildMatches(pat, v, nm) ==
    /\ pat.hasWildcard
    /\ \/ (~StrContains(nm, At) /\ GlobMatch(pat.name, nm))
       \/ (~HasDefaultVersion(nm) /\ GlobMatch(WithVersion(pat.name, v.name), nm))

\* The three passes are over: the scan is about to let the symbols parse
\* their names, or has finished.
ScanDone ==
    \/ scanPass = 4
    \/ (scanPass = 3 /\ scanPos > Len(StarRules(config.versionDefinitions)))

\* C7: exact beats wildcard, whatever the order of the blocks.  When the scan
\* is done, a versionable symbol whose name holds no '@', named by an exact
\* global pattern of a block V1 that no earlier block names exactly, and matched
\* by a wildcard pattern ("*" included) of another block V2, has V1's version
\* id, be V2 before or after V1.
C7_ExactBeatsWildcard ==
    ScanDone =>
        \A addr \in 1..Len(heap) :
            LET nm == KeyOf(addr)
            IN  (canBeVersioned(heap[addr]) /\ ~StrContains(nm, At)) =>
                    \A i, j \in 1..Len(Defs) :
                        ( /\ i # j
                          /\ \E p \in SeqRange(Defs[i].nonLocalPatterns) :
                                ExactMatches(p, Defs[i], nm)
                          /\ \A k \in 1..(i - 1) : \A p \in AllPatterns(Defs[k]) :
                                ~ExactMatches(p, Defs[k], nm)
                          /\ \E p \in AllPatterns(Defs[j]) : WildMatches(p, Defs[j], nm) )
                        => heap[addr].versionId = Defs[i].id

\* The scan is done; the second block names the symbol a exactly, the first
\* block matches it by a wildcard, and a has the second block's version id.
C7_Witness ==
    /\ ScanDone
    /\ canBeVersioned(heap[1])
    /\ \E p \in SeqRange(Defs[2].nonLocalPatterns) : ExactMatches(p, Defs[2], <<"a">>)
    /\ \E p \in SeqRange(Defs[1].nonLocalPatterns) : WildMatches(p, Defs[1], <<"a">>)
    /\ heap[1].versionId = Defs[2].id

\* C8: among wildcards that are not "*", the block defined later wins.  When
\* the scan is done, a versionable symbol that no exact pattern names, matched
\* by a global non-"*" wildcard of a block V1 and by one of a later block V2,
\* no block after V2 matching it by a non-"*" wildcard, has V2's version id.
C8_LaterWildcardWins ==
    ScanDone =>
        \A addr \in 1..Len(heap) :
            LET nm == KeyOf(addr)
            IN  canBeVersioned(heap[addr]) =>
                    \A i, j \in 1..Len(Defs) :
                        ( /\ i < j
                          /\ \A k \in 1..Len(Defs) : \A p \in AllPatterns(Defs[k]) :
                                ~ExactMatches(p, Defs[k], nm)
                          /\ \E p \in SeqRange(Defs[i].nonLocalPatterns) :
                                p.name # <<Star>> /\ WildMatches(p, Defs[i], nm)
                          /\ \E p \in SeqRange(Defs[j].nonLocalPatterns) :
                                p.name # <<Star>> /\ WildMatches(p, Defs[j], nm)
                          /\ \A k \in (j + 1)..Len(Defs) : \A p \in AllPatterns(Defs[k]) :
                                ~(p.name # <<Star>> /\ WildMatches(p, Defs[k], nm)) )
                        => heap[addr].versionId = Defs[j].id

\* The scan is done; both blocks hold the global pattern a*, nothing names ab
\* exactly, and ab has the second block's version id.
C8_Witness ==
    /\ ScanDone
    /\ canBeVersioned(heap[2])
    /\ \A i \in {1, 2} : SymbolVersion(<<"a", Star>>) \in SeqRange(Defs[i].nonLocalPatterns)
    /\ heap[2].versionId = Defs[2].id

\* The version ids of the rules that are not "*" and assign to a symbol of the
\* name nm: a global pattern gives its block's id, a local one VER_NDX_LOCAL.
\* An exact pattern without "@<block>" passes over a name that holds '@',
\* unless it is local.
NonStarIds(nm) ==
    { id \in {VER_NDX_LOCAL} \cup { Defs[i].id : i \in 1..Len(Defs) } :
        \E i \in 1..Len(Defs) :
            \/ /\ id = Defs[i].id
               /\ \E p \in SeqRange(Defs[i].nonLocalPatterns) :
                     \/ (p.name # <<Star>> /\ WildMatches(p, Defs[i], nm))
                     \/ (~p.hasWildcard /\ p.name = nm /\ ~StrContains(nm, At))
                     \/ (~p.hasWildcard /\ WithVersion(p.name, Defs[i].name) = nm)
            \/ /\ id = VER_NDX_LOCAL
               /\ \E p \in SeqRange(Defs[i].localPatterns) :
                     \/ (p.name # <<Star>> /\ WildMatches(p, Defs[i], nm))
                     \/ ExactMatches(p, Defs[i], nm) }

\* C9: a bare "*" never overrides another rule's assignment.  When the scan
\* is done, a versionable symbol to which at least one rule other than "*"
\* assigns has the version id of such a rule, whatever blocks hold "*".
C9_StarNeverOverrides ==
    ScanDone =>
        \A addr \in 1..Len(heap) :
            (canBeVersioned(heap[addr]) /\ NonStarIds(KeyOf(addr)) # {})
                => heap[addr].versionId \in NonStarIds(KeyOf(addr))

\* The scan is done; the first block holds the global pattern "*", the second
\* the global pattern a*, and ab has the second block's version id.
C9_Witness ==
    /\ ScanDone
    /\ canBeVersioned(heap[2])
    /\ SymbolVersion(<<Star>>) \in SeqRange(Defs[1].nonLocalPatterns)
    /\ SymbolVersion(<<"a", Star>>) \in SeqRange(Defs[2].nonLocalPatterns)
    /\ NonStarIds(<<"a", "b">>) = {Defs[2].id}
    /\ heap[2].versionId = Defs[2].id

\* C10: in the three passes a symbol's version id is written at most once.  A
\* step of a pass changes a version id only of a symbol that carried the
\* unassigned sentinel, and clears the sentinel with it; a symbol whose
\* sentinel is cleared keeps its version id and stays cleared.
C10_WrittenOnce ==
    [][ (scanPass \in {1, 2, 3} /\ scanPass' \in {1, 2, 3})
        => /\ DOMAIN heap' = DOMAIN heap
           /\ \A addr \in DOMAIN heap :
                /\ heap'[addr].versionId # heap[addr].versionId
                     => /\ heap[addr].verdefIndex = Unassigned
                        /\ heap'[addr].verdefIndex # Unassigned
                /\ heap[addr].verdefIndex # Unassigned
                     => /\ heap'[addr].versionId = heap[addr].versionId
                        /\ heap'[addr].verdefIndex = heap[addr].verdefIndex ]_vars

\* The second exact rule has been applied: it names the symbol a, as the first
\* did, with another version id, and a keeps the id the first rule gave it.
C10_Witness ==
    /\ scanPass = 1
    /\ scanPos = 3
    /\ canBeVersioned(heap[1])
    /\ LET rules == ExactRules(Defs)
       IN  /\ rules[1].pat.name = <<"a">>
           /\ rules[2].pat.name = <<"a">>
           /\ rules[1].id # rules[2].id
           /\ heap[1].verdefIndex # Unassigned
           /\ heap[1].versionId = rules[1].id

----------------------------------------------------------------------------
(* Properties of the diagnostics of scanVersionScript *)

IsError(d) == d.kind = "error"

\* The "symbol not defined" errors reported so far, in order.
Errors(ds) == SelectSeq(ds, IsError)

\* Some versionable symbol is bound to the name nm.
VersionableNamed(nm) ==
    /\ nm \in DOMAIN symMap
    /\ canBeVersioned(RecAt(symVector, heap, symMap[nm]))

\* The exact rule names a versionable symbol, as it stands or with
\* "@<name of the block>" appended.
ExactRuleMatches(rule) ==
    \/ VersionableNamed(rule.pat.name)
    \/ VersionableNamed(WithVersion(rule.pat.name, rule.block))

\* The wildcard rule matches a versionable symbol, as it stands or with
\* "@<version>" appended.
WildRuleMatches(rule) ==
    \E addr \in 1..Len(heap) :
        /\ canBeVersioned(heap[addr])
        /\ \/ GlobMatch(rule.pat.name, heap[addr].name)
           \/ GlobMatch(WithVersion(rule.pat.name, rule.ver), heap[addr].name)

\* A step of the scan that applies one rule of the pass it is in.
RuleStep == scanPass \in {1, 2, 3} /\ scanPass' = scanPass /\ scanPos' = scanPos + 1

\* The rule such a step applies.
StepRule == PassRules(scanPass, config.versionDefinitions)[scanPos]

\* C11 as stated: every rule, exact or wildcard, that matches no versionable
\* symbol reports "symbol not defined" when the override is unset, and a rule
\* reports nothing when the override is set or when it matches.
C11_EveryRuleReports ==
    [][ RuleStep
        => LET matches == IF scanPass = 1 THEN ExactRuleMatches(StepRule)
                          ELSE WildRuleMatches(StepRule)
           IN  Errors(diags') =
                   IF ~matches /\ ~config.undefinedVersion
                   THEN Append(Errors(diags), ErrorNotDefined(StepRule.pat.name, StepRule.ver))
                   ELSE Errors(diags) ]_vars

\* C11, amended: an exact rule that names no versionable symbol, neither as it
\* stands nor with "@<name of the block>" appended, reports "symbol not
\* defined" when the override is unset; it reports nothing when the override
\* is set or when it names a versionable symbol in either form.  A wildcard
\* rule never reports the error, whether it matches a symbol or not.
C11_ExactRuleReports ==
    [][ RuleStep
        => Errors(diags') =
               IF scanPass = 1 /\ ~ExactRuleMatches(StepRule) /\ ~config.undefinedVersion
               THEN Append(Errors(diags), ErrorNotDefined(StepRule.pat.name, StepRule.ver))
               ELSE Errors(diags) ]_vars

\* The override is unset; the exact rule for a in the first block named no
\* versionable symbol and was reported, and a wildcard rule that matched no
\* versionable symbol has been applied since without a report.
C11_Witness ==
    /\ ~config.undefinedVersion
    /\ scanPass = 2
    /\ scanPos = 2
    /\ \A addr \in 1..Len(heap) : ~canBeVersioned(heap[addr])
    /\ Errors(diags) = <<ErrorNotDefined(<<"a">>, <<"v">>)>>

----------------------------------------------------------------------------
(* Properties of the call-graph sort: the order mapping *)

\* The nodes of the graph.
Nodes == 0..(Len(clusters) - 1)

\* The node k next-links after node i.
RECURSIVE NextK(_, _, _)
NextK(cs, i, k) == IF k = 0 THEN i ELSE NextK(cs, cs[i + 1].next, k - 1)

\* The member cycle of the cluster of node i: the nodes in next-link order
\* from i until the links come back to i.
CycleLen(cs, i) == CHOOSE n \in 1..Len(cs) :
                      /\ NextK(cs, i, n) = i
                      /\ \A k \in 1..(n - 1) : NextK(cs, i, k) # i

Cycle(cs, i) == [k \in 1..CycleLen(cs, i) |-> NextK(cs, i, k - 1)]

Members(cs, i) == { NextK(cs, i, k) : k \in 0..(Len(cs) - 1) }

\* The sections of the clusters that survive into the final order: the
\* members of the clusters of size > 0.
PlacedSections ==
    { sections[n + 1] : n \in UNION { Members(clusters, i) :
                                        i \in { j \in Nodes : clusters[j + 1].size > 0 } } }

AllSections == { sections[n + 1] : n \in Nodes }

\* run() has built the order mapping.
Ordered == cgPc \in {"dump", "done"}

\* C12 as stated: the N sections that received a cluster all get an index,
\* and the indices are exactly 1..N, sections of size 0 included.
C12_AllSectionsOrdered ==
    Ordered =>
        /\ DOMAIN orderMap = AllSections
        /\ { orderMap[s] : s \in DOMAIN orderMap } = 1..Cardinality(AllSections)

\* C12, amended: the order mapping assigns an index to exactly the sections
\* of the clusters whose size is > 0 when the merging is over; with M such
\* sections the indices are exactly 1..M, each used once.  A section of a
\* cluster of size 0 gets no index; when every section that received a
\* cluster has a size > 0, M is the number N of those sections.
C12_PlacedSectionsOrdered ==
    Ordered =>
        /\ DOMAIN orderMap = PlacedSections
        /\ { orderMap[s] : s \in DOMAIN orderMap } = 1..Cardinality(PlacedSections)
        /\ \A s, t \in DOMAIN orderMap : orderMap[s] = orderMap[t] => s = t
        /\ (\A s \in AllSections : inputSections[s].size > 0)
              => DOMAIN orderMap = AllSections

\* run() has returned; of three sections one of size 0 was merged into a
\* cluster of size > 0 and has an index, and one of size 0 stayed alone and
\* has none.
C12_Witness ==
    /\ cgPc = "done"
    /\ Cardinality(AllSections) = 3
    /\ \E s \in DOMAIN orderMap : inputSections[s].size = 0
    /\ \E s \in AllSections : s \notin DOMAIN orderMap
    /\ { orderMap[s] : s \in DOMAIN orderMap } = {1, 2}

\* The clusters that survive into the final order.
Survivors == { i \in Nodes : clusters[i + 1].size > 0 }

\* The index the order mapping gives to the section of node n.
OrderOf(n) == orderMap[sections[n + 1]]

\* C13: in the order mapping the sections of a surviving cluster take a
\* contiguous range of indices, given in next-link order from the cluster's
\* representative, and a cluster placed before another is at least as dense.
C13_ClustersContiguous ==
    Ordered =>
        /\ \A i \in Survivors :
              \A k \in 1..CycleLen(clusters, i) :
                  OrderOf(Cycle(clusters, i)[k]) = OrderOf(i) + (k - 1)
        /\ \A i, j \in Survivors :
              OrderOf(i) < OrderOf(j)
                  => clusters[j + 1].weight * clusters[i + 1].size
                        <= clusters[i + 1].weight * clusters[j + 1].size

\* run() has returned; a cluster of two sections is denser than the cluster
\* found before it and is placed first.
C13_Witness ==
    /\ cgPc = "done"
    /\ \E i, j \in Survivors :
          /\ i < j
          /\ CycleLen(clusters, j) = 2
          /\ OrderOf(j) = 1
          /\ OrderOf(clusters[j + 1].next) = 2
          /\ OrderOf(i) = 3
          /\ clusters[j + 1].weight * clusters[i + 1].size
                > clusters[i + 1].weight * clusters[j + 1].size

----------------------------------------------------------------------------
(* Properties of the call-graph sort: merging *)

TheProfile == config.callGraphProfile

\* The sections of a chain s1 -> s2 -> ... -> sn, in order.
ChainSections(prof) == <<prof[1].from>> \o [k \in 1..Len(prof) |-> prof[k].to]

\* The profile is a chain of distinct sections of one output section, with
\* strictly decreasing positive weights, equal positive sizes and a total
\* size within the cap.
IsChain(prof) ==
    /\ Len(prof) >= 1
    /\ \A k \in 1..(Len(prof) - 1) :
          /\ prof[k].to = prof[k + 1].from
          /\ prof[k].weight > prof[k + 1].weight
    /\ \A k \in 1..Len(prof) : prof[k].weight > 0
    /\ LET secs == ChainSections(prof)
       IN  /\ \A a, b \in 1..Len(secs) : secs[a] = secs[b] => a = b
           /\ \A a \in 1..Len(secs) :
                 /\ inputSections[secs[a]].out = inputSections[secs[1]].out
                 /\ inputSections[secs[a]].size = inputSections[secs[1]].size
           /\ inputSections[secs[1]].size > 0
           /\ Len(secs) * inputSections[secs[1]].size <= MAX_CLUSTER_SIZE

\* A round of Phase B that merged the cluster it visited.
MergeStep == cgPc = "merge" /\ cgPos' = cgPos + 1 /\ clusters' # clusters

\* The cluster such a round visits, and the cluster it merges into: the one
\* that gains weight.
Visited == sorted[cgPos]

MergedInto == CHOOSE p \in Nodes : clusters'[p + 1].weight > clusters[p + 1].weight

\* C14: predecessor-absorbing placement keeps the call order.  A chain profile
\* ends in one cluster led by s1 and the order mapping is s1:1, ..., sn:n; and
\* every merge of C into P leaves P's cycle as P's members followed by C's
\* members, each in the order they had.
C14_ChainKeepsCallOrder ==
    /\ [](Ordered /\ IsChain(TheProfile)
            => LET secs == ChainSections(TheProfile)
               IN  /\ CycleLen(clusters, 0) = Len(secs)
                   /\ DOMAIN orderMap = { secs[k] : k \in 1..Len(secs) }
                   /\ \A k \in 1..Len(secs) : orderMap[secs[k]] = k)
    /\ [][ MergeStep
           => Cycle(clusters', MergedInto)
                  = Cycle(clusters, MergedInto) \o Cycle(clusters, Visited) ]_vars

\* run() has returned for a chain of three sections; the third section was
\* merged into the cluster of the first two and is placed third.
C14_Witness ==
    /\ cgPc = "done"
    /\ Len(TheProfile) = 2
    /\ IsChain(TheProfile)
    /\ Cycle(clusters, 0) = <<0, 1, 2>>
    /\ orderMap[TheProfile[2].to] = 3

\* The profile is two edges H -> X and L -> X from distinct sources, in
\* either order, all three sections in one output section, with
\* weight(H) > 10 * weight(L) and X and H together within the size cap.
\* h is the place of the edge of H in the profile.
IsTwoSources(prof, h) ==
    /\ Len(prof) = 2
    /\ h \in {1, 2}
    /\ LET H == prof[h]
           L == prof[3 - h]
       IN  /\ H.to = L.to
           /\ H.from # L.from /\ H.from # H.to /\ L.from # L.to
           /\ H.weight > 10 * L.weight
           /\ inputSections[H.from].out = inputSections[H.to].out
           /\ inputSections[L.from].out = inputSections[L.to].out
           /\ inputSections[H.from].size + inputSections[H.to].size <= MAX_CLUSTER_SIZE

\* A round of Phase B.
VisitStep == cgPc = "merge" /\ cgPos' = cgPos + 1

\* C15: the best predecessor alone is merged with.  With the two edges H -> X
\* and L -> X, weight(H) > 10 * weight(L), X ends in the cluster of H, right
\* after H, and L ends as a cluster of its own.  And every merge is made by
\* the cluster being visited, which has not been merged before and is merged
\* from then on, into the cluster that holds its recorded best predecessor; a
\* merged cluster stays merged.
C15_OnlyBestPredecessorMerges ==
    /\ [](Ordered
            => \A h \in {1, 2} :
                  IsTwoSources(TheProfile, h)
                  => LET H == secToCluster[TheProfile[h].from]
                         X == secToCluster[TheProfile[h].to]
                         L == secToCluster[TheProfile[3 - h].from]
                     IN  /\ Cycle(clusters, H) = <<H, X>>
                         /\ Cycle(clusters, L) = <<L>>
                         /\ leaders[L + 1] = L)
    /\ [][ MergeStep
           => /\ leaders[Visited + 1] = Visited
              /\ leaders[MergedInto + 1] = MergedInto
              /\ leaders'[Visited + 1] = MergedInto
              /\ clusters[Visited + 1].bestPred.from \in Members(clusters, MergedInto)
              /\ \A i \in Nodes \ {Visited, MergedInto} :
                    /\ clusters'[i + 1].size = clusters[i + 1].size
                    /\ clusters'[i + 1].weight = clusters[i + 1].weight ]_vars
    /\ [][ VisitStep
           => \A i \in Nodes : leaders[i + 1] # i => leaders'[i + 1] # i ]_vars

\* run() has returned for the profile L -> X (weight 1), H -> X (weight 11):
\* X was merged into the cluster of H and L is alone.
C15_Witness ==
    /\ cgPc = "done"
    /\ IsTwoSources(TheProfile, 2)
    /\ Cycle(clusters, 2) = <<2, 1>>
    /\ Cycle(clusters, 0) = <<0>>
    /\ leaders = <<0, 2, 2>>

\* The leader of the cluster that holds the best predecessor of the cluster
\* being visited.
PredHead ==
    CHOOSE h \in Nodes :
        /\ leaders[h + 1] = h
        /\ clusters[Visited + 1].bestPred.from \in Members(clusters, h)

\* The round has a cluster to merge into other than the one it visits.
HasOtherPred ==
    /\ clusters[Visited + 1].bestPred.from # NoPred
    /\ PredHead # Visited

\* C16: the size cap.  A merge of C into P is made only when C.size + P.size
\* is at most 1 MiB, so a cluster of two or more sections never exceeds 1 MiB;
\* a round whose merge would exceed it leaves every cluster and every
\* cluster's leader as they were and the pass goes on.
C16_SizeCap ==
    /\ [](\A i \in Nodes :
            Cardinality(Members(clusters, i)) >= 2 => clusters[i + 1].size <= 1048576)
    /\ [][ MergeStep
           => clusters[Visited + 1].size + clusters[MergedInto + 1].size <= 1048576 ]_vars
    /\ [][ (VisitStep /\ HasOtherPred
            /\ clusters[Visited + 1].size + clusters[PredHead + 1].size > 1048576)
           => /\ clusters' = clusters
              /\ \A i \in Nodes : getLeader(leaders', i).v = getLeader(leaders, i).v
              /\ cgPc' = "merge" ]_vars

\* A round has just turned down a merge for its size: the cluster visited is
\* one byte short of the cap, its best predecessor leads a cluster of two
\* sections, and together they exceed the cap.
C16_Witness ==
    /\ cgPc = "merge"
    /\ cgPos = 3
    /\ LET c == sorted[2]
           p == clusters[c + 1].bestPred.from
       IN  /\ p # NoPred
           /\ leaders[p + 1] = p
           /\ p # c
           /\ leaders[c + 1] = c
           /\ Cardinality(Members(clusters, p)) = 2
           /\ clusters[c + 1].bestPred.weight * 10 > clusters[c + 1].initialWeight
           /\ clusters[c + 1].size = 1048575
           /\ clusters[p + 1].size = 2

\* The density of a cluster of weight w and size s as a fraction, 0 for size 0.
ExactDensity(w, s) == IF s = 0 THEN <<0, 1>> ELSE <<w, s>>

\* x < y for fractions with positive denominators.
RatLess(x, y) == x[1] * y[2] < y[1] * x[2]

\* The density of P and C merged is below the density of P divided by 8.
DensityFallsBelow(P, C) ==
    RatLess(ExactDensity(P.weight + C.weight, P.size + C.size),
            <<ExactDensity(P.weight, P.size)[1], 8 * ExactDensity(P.weight, P.size)[2]>>)

C18_DumpFailureKeepsOrder ==
    [][ (cgPc = "dump" /\ cgPc' = "done")
        => /\ call'.op = "run"
           /\ call'.ret = orderMap
           /\ orderMap' = orderMap
           /\ (call'.printSymbolOrder /\ call'.ec) => diags' = Append(diags, CannotOpen)
           /\ ~(call'.printSymbolOrder /\ call'.ec) => diags' = diags ]_vars

\* run() has returned after the file could not be opened: the error is
\* reported and the mapping returned places three sections.
C18_Witness ==
    /\ cgPc = "done"
    /\ call.op = "run"
    /\ call.printSymbolOrder
    /\ call.ec
    /\ diags = <<CannotOpen>>
    /\ call.ret = orderMap
    /\ Cardinality(DOMAIN call.ret) = 3

----------------------------------------------------------------------------
(* Properties of the call-graph sort: the clusters as a partition *)

\* The edges the constructor has taken so far.
EdgesTaken ==
    IF cgPc = "build" THEN SubSeq(TheProfile, 1, cgPos - 1) ELSE TheProfile

Endpoints(edges) == UNION { {edges[k].from, edges[k].to} : k \in 1..Len(edges) }

\* The endpoints of the edges within one output section.
KeptEndpoints(edges) ==
    UNION { {edges[k].from, edges[k].to} :
              k \in { j \in 1..Len(edges) :
                        inputSections[edges[j].from].out = inputSections[edges[j].to].out } }

\* The clusters that have not been merged into another.
Leaders == { i \in Nodes : cgPc \in {"build", "run"} \/ leaders[i + 1] = i }

\* Every section of the graph is one node, and every node lies on the member
\* cycle of exactly one cluster.
CyclesPartitionNodes ==
    /\ Len(sections) = Len(clusters)
    /\ \A a, b \in Nodes : sections[a + 1] = sections[b + 1] => a = b
    /\ \A n \in Nodes : Cardinality({ h \in Leaders : n \in Members(clusters, h) }) = 1

InPhaseAB == cgPc \in {"build", "run", "merge"}

\* C20 as stated: the member cycles partition exactly the sections that are
\* an endpoint of any profile edge (of the edges taken so far, while the
\* constructor runs).
C20_PartitionOfAllEndpoints ==
    InPhaseAB => /\ CyclesPartitionNodes
                 /\ AllSections = Endpoints(EdgesTaken)

\* C20, amended: in every state of Phase A and Phase B the member cycles of
\* the clusters partition exactly the sections that are an endpoint of a
\* profile edge taken so far whose two sections lie in one output section; a
\* section that only edges across output sections speak of is in no cluster.
C20_PartitionOfKeptEndpoints ==
    InPhaseAB => /\ CyclesPartitionNodes
                 /\ AllSections = KeptEndpoints(EdgesTaken)

\* Phase B has merged two of three sections into one cluster, and the profile
\* holds an edge across output sections besides.
C20_Witness ==
    /\ cgPc = "merge"
    /\ Cardinality(AllSections) = 2
    /\ Cardinality(Endpoints(TheProfile)) = 3
    /\ \E h \in Leaders : Cardinality(Members(clusters, h)) = 2

----------------------------------------------------------------------------
(* findAllByVersion on the tables of the model *)

\* The symbols as the input files name them: a default version a@@v, an
\* unversioned name, and a non-default version a@v.  The record keeps the
\* name of the file's symbol (lines 144 and 172 look for its "@@"); the key
\* is the name as insert() strips it.
FindTableNames == << <<"a", "@", "@", "v">>, <<"a", "b">>, <<"a", "@", "v">> >>

\* The patterns findAllByVersion is called with.
FindPatterns ==
    { SymbolVersion(n) : n \in { <<Star>>, <<"a", Star>>, <<"a", "@", Star>>, <<"a", "b">> } }

InitFind ==
    /\ symMap = TableMap([i \in 1..Len(FindTableNames) |->
                              StripDefaultVersion(FindTableNames[i])])
    /\ symVector = TableVector(FindTableNames)
    /\ \E r1 \in ScanRecords(FindTableNames[1]),
          r2 \in ScanRecords(FindTableNames[2]),
          r3 \in ScanRecords(FindTableNames[3]) :
          heap = <<r1, r2, r3>>
    /\ call = CallOf("none", NoName, NullHandle)
    /\ nWraps = 0
    /\ config = NoConfig
    /\ diags = << >>
    /\ scanPass = 0
    /\ scanPos = 0
    /\ demangledSyms = NoDemangledSyms
    /\ NoCallGraphSort

\* A call of findAllByVersion(ver, includeNonDefault).
FindAll(ver, includeNonDefault) ==
    /\ call' = [ op |-> "findAllByVersion", name |-> ver.name,
                 ret |-> FindAllByVersion(symVector, heap, ver, includeNonDefault),
                 sym |-> 0, real |-> 0, wrap |-> 0,
                 includeNonDefault |-> includeNonDefault ]
    /\ UNCHANGED <<symMap, symVector, heap, nWraps>>
    /\ Idle

NextFind == \E ver \in FindPatterns, includeNonDefault \in BOOLEAN : FindAll(ver, includeNonDefault)

SpecFind == InitFind /\ [][NextFind]_vars

\* The records findAllByVersion has returned.
Found == { call.ret[k] : k \in 1..Len(call.ret) }

\* The versionable records whose name the pattern of the call matches.
Matching ==
    { addr \in 1..Len(heap) :
        canBeVersioned(heap[addr]) /\ GlobMatch(call.name, heap[addr].name) }

Unversioned(nm) == \A i \in 1..Len(nm) : nm[i] # At

\* nm carries an explicit non-default version: <base>@<version>.
HasNonDefaultVersion(nm) == ~Unversioned(nm) /\ ~HasDefaultVersion(nm)

\* C19 as stated: without includeNonDefault the result is the matching
\* symbols that are unversioned or carry "@@"; with it, those and the
\* matching symbols with a non-default "@<version>".
C19_DefaultVersionsFound ==
    call.op = "findAllByVersion" =>
        Found = { addr \in Matching :
                    \/ Unversioned(heap[addr].name)
                    \/ HasDefaultVersion(heap[addr].name)
                    \/ (call.includeNonDefault /\ HasNonDefaultVersion(heap[addr].name)) }

\* C19, amended: without includeNonDefault the result is exactly the
\* versionable symbols matching the pattern whose name holds no '@'; with it
\* the result holds in addition the matching symbols whose name carries a
\* non-default "@<version>".  A symbol whose name carries the default version
\* "@@<version>" is in neither result.
C19_UnversionedFound ==
    call.op = "findAllByVersion" =>
        /\ Found = { addr \in Matching :
                       \/ Unversioned(heap[addr].name)
                       \/ (call.includeNonDefault /\ HasNonDefaultVersion(heap[addr].name)) }
        /\ \A j, k \in 1..Len(call.ret) : call.ret[j] = call.ret[k] => j = k

\* findAllByVersion("*", true) on three versionable symbols has returned ab
\* and a@v, and not a@@v.
C19_Witness ==
    /\ call.op = "findAllByVersion"
    /\ call.name = <<Star>>
    /\ call.includeNonDefault
    /\ \A addr \in 1..Len(heap) : canBeVersioned(heap[addr])
    /\ call.ret = <<2, 3>>

----------------------------------------------------------------------------
(* Properties of the call-graph sort: the member cycles *)

\* The next links from node i come back to i, and pass no node twice on the
\* way.
ClosedCycle(cs, i) ==
    \E n \in 1..Len(cs) :
        /\ NextK(cs, i, n) = i
        /\ \A j, k \in 0..(n - 1) : NextK(cs, i, j) = NextK(cs, i, k) => j = k

\* The loop of lines 227-232 from leader ends, having passed every member of
\* the cycle of leader once: it took fewer steps than there are nodes, or as
\* many, and its last node links back to leader.
TraversalEnds(cs, leader) ==
    LET w == Walk(cs, leader)
    IN  /\ cs[w[Len(w)] + 1].next = leader
        /\ \A j, k \in 1..Len(w) : w[j] = w[k] => j = k
        /\ { w[k] : k \in 1..Len(w) } = Members(cs, leader)

\* C21: in every state, after construction and after every merge, the next
\* links from any node return to it after passing each member of its cycle
\* once, next and prev are inverse to each other, and the traversal of every
\* surviving cluster in Phase C ends.
C21_ClosedCycles ==
    /\ \A i \in Nodes :
          /\ ClosedCycle(clusters, i)
          /\ clusters[clusters[i + 1].next + 1].prev = i
          /\ clusters[clusters[i + 1].prev + 1].next = i
    /\ Ordered => \A k \in 1..Len(sorted) : TraversalEnds(clusters, sorted[k])

\* Two merges have made one cycle of three nodes, and Phase C has walked it.
C21_Witness ==
    /\ Ordered
    /\ Len(clusters) = 3
    /\ \E k \in 1..Len(sorted) : Len(Walk(clusters, sorted[k])) = 3

----------------------------------------------------------------------------
(* Properties of the call-graph sort: union-find *)

\* The node k parent links above v.
RECURSIVE ParentK(_, _, _)
ParentK(ld, v, k) == IF k = 0 THEN v ELSE ParentK(ld, ld[v + 1], k - 1)

\* leaders is a forest: the parent links from every node reach, within as
\* many steps as there are nodes, a node that is its own parent.
IsForest(ld) ==
    \A v \in 0..(Len(ld) - 1) : \E k \in 0..Len(ld) : ld[ParentK(ld, v, k) + 1] = ParentK(ld, v, k)

\* The root of v in a forest.
Root(ld, v) == ParentK(ld, v, Len(ld))

InPhaseB == cgPc = "merge"

\* C22: throughout Phase B leaders is a forest; getLeader returns the root of
\* its node and leaves every node's root as it was; for every root the nodes
\* with that root are the nodes on its member cycle; the cluster visited is
\* its own root when it is visited; and a merge joins two distinct roots.
C22_UnionFindAgreesWithCycles ==
    /\ [](InPhaseB =>
            /\ Len(leaders) = Len(clusters)
            /\ IsForest(leaders)
            /\ \A v \in Nodes :
                  LET r == getLeader(leaders, v)
                  IN  /\ r.v = Root(leaders, v)
                      /\ IsForest(r.leaders)
                      /\ \A u \in Nodes : Root(r.leaders, u) = Root(leaders, u)
            /\ \A r \in Nodes :
                  leaders[r + 1] = r
                      => { v \in Nodes : Root(leaders, v) = r } = Members(clusters, r))
    /\ [][ InPhaseB /\ cgPos' = cgPos + 1 => leaders[Visited + 1] = Visited ]_vars
    /\ [][ MergeStep
           => /\ leaders[MergedInto + 1] = MergedInto
              /\ MergedInto # Visited
              /\ leaders'[Visited + 1] = MergedInto
              /\ \A u \in Nodes :
                    Root(leaders', u) = IF Root(leaders, u) = Visited
                                        THEN MergedInto
                                        ELSE Root(leaders, u) ]_vars

\* Phase B has hung the third node below the second and the second below the
\* first: getLeader of the third node has two links to follow and halves the
\* path.
C22_Witness ==
    /\ InPhaseB
    /\ \E v \in Nodes :
          /\ leaders[v + 1] # v
          /\ leaders[leaders[v + 1] + 1] # leaders[v + 1]
          /\ getLeader(leaders, v).leaders # leaders

----------------------------------------------------------------------------
(* Properties of the call-graph sort: sizes and weights *)

RECURSIVE SumOver(_, _)
SumOver(f, S) ==
    IF S = {} THEN 0 ELSE LET x == CHOOSE y \in S : TRUE IN f[x] + SumOver(f, S \ {x})

SizeSum(cs) == SumOver([i \in 1..Len(cs) |-> cs[i].size], 1..Len(cs))

WeightSum(cs) == SumOver([i \in 1..Len(cs) |-> cs[i].weight], 1..Len(cs))

\* The sums Phase A ends with: the sizes of the sections of the graph, and
\* the weights of the profile edges within one output section.
SectionSizeSum ==
    SumOver([i \in 1..Len(sections) |-> inputSections[sections[i]].size], 1..Len(sections))

KeptWeightSum ==
    SumOver([k \in 1..Len(TheProfile) |->
                IF inputSections[TheProfile[k].from].out = inputSections[TheProfile[k].to].out
                THEN TheProfile[k].weight ELSE 0],
            1..Len(TheProfile))

\* The clusters Phase B has merged into another.
MergedAway == { i \in Nodes : cgPc \in {"merge", "dump", "done"} /\ leaders[i + 1] # i }

\* C23: a merge of C into P adds C's size and weight to P's and sets C's to
\* 0, and changes no other size or weight; a merged-away cluster has size 0
\* and weight 0 in every later state and no Phase C traversal starts at it;
\* the sizes and the weights of all clusters sum to the same after Phase B
\* as after Phase A.
C23_MergeConservesSizeAndWeight ==
    /\ [][ MergeStep
           => /\ clusters'[MergedInto + 1].size
                    = clusters[MergedInto + 1].size + clusters[Visited + 1].size
              /\ clusters'[MergedInto + 1].weight
                    = clusters[MergedInto + 1].weight + clusters[Visited + 1].weight
              /\ clusters'[Visited + 1].size = 0
              /\ clusters'[Visited + 1].weight = 0
              /\ \A i \in Nodes \ {MergedInto, Visited} :
                    /\ clusters'[i + 1].size = clusters[i + 1].size
                    /\ clusters'[i + 1].weight = clusters[i + 1].weight ]_vars
    /\ [](\A i \in MergedAway : clusters[i + 1].size = 0 /\ clusters[i + 1].weight = 0)
    /\ [][ MergedAway \subseteq MergedAway' ]_vars
    /\ [](Ordered => \A k \in 1..Len(sorted) : sorted[k] \notin MergedAway)
    /\ [](cgPc \in {"run", "merge", "dump", "done"}
            => /\ SizeSum(clusters) = SectionSizeSum
               /\ WeightSum(clusters) = KeptWeightSum)

\* Phase B is over and has merged a cluster of weight 11 and size 1 into a
\* cluster that now has size 2.
C23_Witness ==
    /\ Ordered
    /\ \E c \in MergedAway, p \in Nodes \ MergedAway :
          /\ clusters[c + 1].initialWeight = 11
          /\ inputSections[sections[c + 1]].size = 1
          /\ leaders[c + 1] = p
          /\ clusters[p + 1].size = 2

----------------------------------------------------------------------------
(* Properties of the call-graph sort: edges across output sections *)

CrossesOutputSections(e) == inputSections[e.from].out # inputSections[e.to].out

\* The profile without its edge k.
WithoutEdge(prof, k) == SubSeq(prof, 1, k - 1) \o SubSeq(prof, k + 1, Len(prof))

\* A round of the constructor's loop that took an edge across output sections.
CrossEdgeStep ==
    /\ cgPc = "build"
    /\ cgPos' = cgPos + 1
    /\ CrossesOutputSections(TheProfile[cgPos])

\* C24: an edge between sections of different output sections creates no
\* cluster, adds no weight and changes no best predecessor, and the order
\* mapping is the one of the profile without that edge.
C24_CrossEdgeHasNoEffect ==
    /\ [][ CrossEdgeStep
           => /\ clusters' = clusters
              /\ sections' = sections
              /\ secToCluster' = secToCluster ]_vars
    /\ [](Ordered =>
            \A k \in 1..Len(TheProfile) :
                CrossesOutputSections(TheProfile[k])
                    => orderMap = computeCallGraphProfileOrder(WithoutEdge(TheProfile, k),
                                                               inputSections))

\* The order mapping of a profile of two edges, the second one from a section
\* in .data to a section in .text that the first edge placed.
C24_Witness ==
    /\ Ordered
    /\ Len(TheProfile) = 2
    /\ ~CrossesOutputSections(TheProfile[1])
    /\ CrossesOutputSections(TheProfile[2])
    /\ TheProfile[2].to \in DOMAIN orderMap
    /\ TheProfile[2].weight = 11

----------------------------------------------------------------------------
(* Properties of the call-graph sort: the graph of Phase A *)

\* The positions in edges of the kept edges into section s, and of those
\* among them that come from another section.
KeptInbound(edges, s) ==
    { k \in 1..Len(edges) : edges[k].to = s /\ ~CrossesOutputSections(edges[k]) }

KeptPredecessors(edges, s) == { k \in KeptInbound(edges, s) : edges[k].from # s }

InboundWeight(edges, s) ==
    SumOver([k \in 1..Len(edges) |-> edges[k].weight], KeptInbound(edges, s))

\* The first edge of the greatest weight among the edges at the positions K.
FirstHeaviest(edges, K) ==
    CHOOSE k \in K :
        \A j \in K : \/ edges[j].weight < edges[k].weight
                     \/ (edges[j].weight = edges[k].weight /\ k <= j)

\* C25: after Phase A (and after every edge taken on the way) the weight of
\* each cluster is the sum of the weights of the kept edges into its section,
\* self-edges included; its best predecessor is the source of the first edge
\* of the greatest weight among the kept edges into it from another section,
\* with that weight, and is "none" when there is no such edge; initialWeight
\* is the weight.
C25_WeightAndBestPredecessor ==
    cgPc \in {"build", "run"} =>
        \A n \in Nodes :
            LET s == sections[n + 1]
                c == clusters[n + 1]
                P == KeptPredecessors(EdgesTaken, s)
            IN  /\ c.weight = InboundWeight(EdgesTaken, s)
                /\ P = {} => c.bestPred = [from |-> NoPred, weight |-> 0]
                /\ P # {} =>
                      LET k == FirstHeaviest(EdgesTaken, P)
                      IN  /\ c.bestPred.weight = EdgesTaken[k].weight
                          /\ c.bestPred.from = secToCluster[EdgesTaken[k].from]
                /\ c.bestPred.from # n
                /\ cgPc = "run" => c.initialWeight = c.weight

\* Phase A is over; a section has two kept predecessor edges of the same
\* weight from different sections, and the first one is its best predecessor.
C25_Witness ==
    /\ cgPc = "run"
    /\ Len(TheProfile) = 2
    /\ TheProfile[1].to = TheProfile[2].to
    /\ TheProfile[1].weight = TheProfile[2].weight
    /\ TheProfile[1].from # TheProfile[2].from
    /\ TheProfile[1].from # TheProfile[1].to
    /\ TheProfile[2].from # TheProfile[2].to
    /\ Len(clusters) = 3
    /\ clusters[secToCluster[TheProfile[1].to] + 1].bestPred.from
          = secToCluster[TheProfile[1].from]

----------------------------------------------------------------------------
(* Properties of the call-graph sort: the order of the visits *)

\* The density Phase A ends with for node i: initialWeight by the size of
\* the section, 0 for a section of size 0; compared by cross-multiplication.
InitialDensityGreater(a, b) ==
    LET wa == clusters[a + 1].initialWeight
        wb == clusters[b + 1].initialWeight
        sa == inputSections[sections[a + 1]].size
        sb == inputSections[sections[b + 1]].size
    IN  IF sa = 0 THEN FALSE
        ELSE IF sb = 0 THEN wa > 0
        ELSE wa * sb > wb * sa

\* sorted holds every node once, denser nodes first, nodes of the same
\* density by their index.
InitialDensityOrder ==
    /\ Len(sorted) = Len(clusters)
    /\ { sorted[k] : k \in 1..Len(sorted) } = Nodes
    /\ \A j, k \in 1..Len(sorted) :
          j < k => /\ ~InitialDensityGreater(sorted[k], sorted[j])
                   /\ ~InitialDensityGreater(sorted[j], sorted[k]) => sorted[j] < sorted[k]

\* C26: Phase B visits the clusters in the order of the stable density sort
\* of the Phase A clusters, one a round and every one once: sorted is that
\* order in every state of Phase B, a round moves on by one and takes size
\* or weight from no cluster but the one at its position, and Phase B ends
\* behind the last one.  No step of Phase B or Phase C changes the
\* best-predecessor edge or the initialWeight of any cluster.
C26_FixedVisitOrder ==
    /\ [](InPhaseB => InitialDensityOrder /\ cgPos \in 1..(Len(sorted) + 1))
    /\ [][ InPhaseB /\ cgPc' = "merge"
           => /\ sorted' = sorted
              /\ cgPos' = cgPos + 1
              /\ \A i \in Nodes \ {Visited} :
                    /\ clusters'[i + 1].size >= clusters[i + 1].size
                    /\ clusters'[i + 1].weight >= clusters[i + 1].weight ]_vars
    /\ [][ InPhaseB /\ cgPc' = "dump" => cgPos = Len(sorted) + 1 ]_vars
    /\ [][ (cgPc = "run" \/ cgPc = "merge" \/ cgPc = "dump")
           => /\ Len(clusters') = Len(clusters)
              /\ \A i \in Nodes :
                    /\ clusters'[i + 1].bestPred = clusters[i + 1].bestPred
                    /\ clusters'[i + 1].initialWeight = clusters[i + 1].initialWeight ]_vars

\* Phase B is over after two merges: the cluster of all three sections has
\* another weight than its initialWeight, and the clusters merged away keep
\* their best predecessor.
C26_Witness ==
    /\ Ordered
    /\ Cardinality(MergedAway) = 2
    /\ \E p \in Nodes \ MergedAway : clusters[p + 1].weight # clusters[p + 1].initialWeight
    /\ \A c \in MergedAway : clusters[c + 1].bestPred.from # NoPred

----------------------------------------------------------------------------
(* Properties of the call-graph sort: the weak-edge test *)

\* The length of the numbers the properties compute with, long enough for
\* the tenfold of a weight and for the sum of the weights of a profile.
WideDigits == U64Digits + 2

Widen(x) == x \o [i \in 1..(WideDigits - Len(x)) |-> 0]

\* The sum of the weights of the edges, over the integers.
RECURSIVE TrueWeight(_)
TrueWeight(edges) ==
    IF edges = << >> THEN Widen(<< >>)
    ELSE SubSeq(AddDigits(TrueWeight(Tail(edges)), Widen(Head(edges).weight), 0), 1, WideDigits)

\* Ten times the weight w, over the integers.
Tenfold(w) == Widen(MulDigits(w, 10, 0))

\* x is a value of uint64_t.
FitsU64(x) == \A i \in (U64Digits + 1)..Len(x) : x[i] = 0

Tested == call.op = "edgeUnlikely"

HasPred == clusters[1].bestPred.from # NoPred

BestWeight == clusters[1].bestPred.weight

\* C27 as stated: the cluster is skipped exactly when it has no predecessor
\* or 10 * w <= the sum of its inbound weights, over the integers, for all
\* 64-bit weights.
C27_WeakEdgeOverIntegers ==
    Tested => (call.ret <=> (~HasPred \/ LessEqDigits(Tenfold(BestWeight), TrueWeight(TheProfile))))

\* C27, amended: the cluster is skipped exactly when it has no predecessor or
\* (10 * w) mod 2^64 <= initialWeight, initialWeight being the sum of its
\* inbound weights mod 2^64.  That is the decision over the integers whenever
\* 10 * w and the sum are both below 2^64; a weight w above (2^64 - 1) / 10
\* can be skipped though 10 * w exceeds the sum.
C27_WeakEdgeModulo ==
    Tested =>
        /\ clusters[1].initialWeight = Trunc64(TrueWeight(TheProfile))
        /\ call.ret <=> (\/ ~HasPred
                         \/ LessEqDigits(Trunc64(Tenfold(BestWeight)),
                                         Trunc64(TrueWeight(TheProfile))))
        /\ FitsU64(Tenfold(BestWeight)) /\ FitsU64(TrueWeight(TheProfile))
              => (call.ret <=> (\/ ~HasPred
                                \/ LessEqDigits(Tenfold(BestWeight), TrueWeight(TheProfile))))

\* The one edge into the cluster has the weight 2^63: its tenfold wraps to 0
\* and the cluster is skipped, though the edge is all of its weight.
C27_Witness ==
    /\ Tested
    /\ Len(TheProfile) = 1
    /\ HasPred
    /\ BestWeight = <<0, 0, 0, 32768>>
    /\ ~FitsU64(Tenfold(BestWeight))
    /\ call.ret

----------------------------------------------------------------------------
(* Properties of the warnings of scanVersionScript *)

IsWarning(d) == d.kind = "warning"

\* The "attempt to reassign" warnings given so far, in order.
Warnings(ds) == SelectSeq(ds, IsWarning)

\* The exact rules of the script in the order of the claim: the blocks in
\* the order of the script, of each block the exact patterns of its global
\* list, then those of its local list with the id VER_NDX_LOCAL.
RECURSIVE RulesInScriptOrder(_)
RulesInScriptOrder(defs) ==
    IF defs = << >> THEN << >>
    ELSE LET v == Head(defs)
             G == SelectSeq(v.nonLocalPatterns, IsExactPat)
             L == SelectSeq(v.localPatterns, IsExactPat)
         IN  [k \in 1..Len(G) |-> [name |-> G[k].name, id |-> v.id, blockId |-> v.id]]
             \o [k \in 1..Len(L) |-> [name |-> L[k].name, id |-> VER_NDX_LOCAL, blockId |-> v.id]]
             \o RulesInScriptOrder(Tail(defs))

\* The positions of the exact rules that name the symbol at addr.
RulesNaming(rules, addr) == { k \in 1..Len(rules) : rules[k].name = heap[addr].name }

FirstOf(K) == CHOOSE k \in K : \A j \in K : k <= j

\* The warnings the exact rules past the first give for the symbol at addr:
\* one for every rule whose id is not the id of the first rule.
RECURSIVE ReassignWarnings(_, _, _, _)
ReassignWarnings(rules, addr, first, k) ==
    IF k > Len(rules) THEN << >>
    ELSE (IF k \in RulesNaming(rules, addr) /\ rules[k].id # rules[first].id
          THEN <<Warning(heap[addr].name, rules[first].id, rules[k].id)>>
          ELSE << >>)
         \o ReassignWarnings(rules, addr, first, k + 1)

\* The warnings in ds about the pattern nm.
WarningsNaming(ds, nm) ==
    LET Names(d) == d.kind = "warning" /\ d.name = nm
    IN  SelectSeq(ds, Names)

\* The first pass is over.
ExactPassOver == scanPass \in {2, 3, 4}

\* The symbols the claim speaks of: versionable, and bound in symMap to a
\* name without a version (the name of a record like a@v loses its version
\* at the end of the scan, its key does not).
PlainVersionable ==
    { addr \in 1..Len(heap) :
        /\ canBeVersioned(heap[addr])
        /\ ~StrContains(heap[addr].name, At)
        /\ heap[addr].name \in DOMAIN symMap
        /\ symVector[symMap[heap[addr].name] + 1] = addr }

\* C28: a versionable symbol that exact rules name keeps, from the first pass
\* to the end of the scan, the version id of the first of them (blocks in
\* script order, global patterns before local ones); every later exact rule
\* naming it with another id gives one warning that names the symbol's
\* version and the rule's, a later rule with the same id gives none; and no
\* wildcard rule gives a warning.
C28_FirstExactRuleWins ==
    /\ [](ExactPassOver =>
            \A addr \in PlainVersionable :
                LET rules == RulesInScriptOrder(config.versionDefinitions)
                    K == RulesNaming(rules, addr)
                IN  /\ K # {} =>
                          /\ heap[addr].versionId = rules[FirstOf(K)].id
                          /\ WarningsNaming(diags, heap[addr].name)
                                = ReassignWarnings(rules, addr, FirstOf(K), FirstOf(K) + 1)
                    /\ K = {} => WarningsNaming(diags, heap[addr].name) = << >>)
    /\ [][ RuleStep /\ scanPass \in {2, 3} => Warnings(diags') = Warnings(diags) ]_vars

\* The scan is over: both blocks hold the exact pattern a, the symbol a has
\* the version of the first block, and the rule of the second block has been
\* warned about.
C28_Witness ==
    /\ scanPass = 4
    /\ 1 \in PlainVersionable
    /\ \A i \in 1..2 :
          \E k \in 1..Len(config.versionDefinitions[i].nonLocalPatterns) :
              config.versionDefinitions[i].nonLocalPatterns[k].name = heap[1].name
    /\ heap[1].versionId = config.versionDefinitions[1].id
    /\ \E k \in 1..Len(diags) :
          diags[k] = Warning(heap[1].name, config.versionDefinitions[1].id,
                             config.versionDefinitions[2].id)

----------------------------------------------------------------------------
(* Properties of wrap: the flags and the record of real *)

\* A step that is a call of wrap.
WrapStep == call'.op = "wrap" /\ nWraps' = nWraps + 1

\* C29: after wrap(sym, real, wrap) the exportDynamic flag of sym is its old
\* value or real's old value; the isUsedInRegularObj flag of sym is cleared
\* when real was not used in a regular object and sym is Undefined, and is
\* its old value otherwise; no other field of sym changes; the record of real
\* is, field by field, the record of sym as the flags left it, but with
\* isUsedInRegularObj false; and no other record changes, so a handle to the
\* record of real reads that copy.
C29_WrapFlags ==
    [][ WrapStep
        => LET a == heap[call'.sym]
               b == heap[call'.real]
           IN  /\ heap'[call'.sym]
                    = [a EXCEPT !.exportDynamic = a.exportDynamic \/ b.exportDynamic,
                                !.isUsedInRegularObj =
                                    IF ~b.isUsedInRegularObj /\ a.symbolKind = "Undefined"
                                    THEN FALSE
                                    ELSE a.isUsedInRegularObj]
               /\ heap'[call'.real] = [heap'[call'.sym] EXCEPT !.isUsedInRegularObj = FALSE]
               /\ Len(heap') = Len(heap)
               /\ \A addr \in 1..Len(heap) :
                     addr \notin {call'.sym, call'.real} => heap'[addr] = heap[addr]
               /\ symVector' = symVector ]_vars

\* The first wrap, of a, b and a@v: the record of a is Undefined, exported and
\* used in a regular object, and the record that was b's is now named a, is
\* exported and is not used in a regular object.
C29_Witness ==
    /\ call.op = "wrap"
    /\ nWraps = 1
    /\ call.sym = 1 /\ call.real = 2 /\ call.wrap = 3
    /\ heap[1].symbolKind = "Undefined"
    /\ heap[1].exportDynamic
    /\ heap[1].isUsedInRegularObj
    /\ heap[2].name = heap[1].name
    /\ heap[2].exportDynamic
    /\ ~heap[2].isUsedInRegularObj

----------------------------------------------------------------------------
(* getDemangledSyms *)

\* demangleItanium, as far as the table depends on it: a name that is no
\* mangled name comes back as it is, a mangled name _Z<x> comes back as
\* another string, here <x>().
demangleItanium(name) ==
    IF Len(name) >= 2 /\ name[1] = "_" /\ name[2] = "Z"
    THEN SubSeq(name, 3, Len(name)) \o <<"(", ")">>
    ELSE name

\* Lines 140-148: the key a symbol of this name is filed under.
Demangled(name) ==
    LET pos == StrFind(name, At)
    IN  IF pos = NPOS THEN demangleItanium(name)
        ELSE IF pos + 1 = Len(name) \/ name[pos + 2] = At
        THEN demangleItanium(TakeFront(name, pos))
        ELSE demangleItanium(TakeFront(name, pos)) \o SubSeq(name, pos + 1, Len(name))

\* (*demangledSyms)[demangled].push_back(sym)
PushBack(map, key, addr) ==
    [k \in DOMAIN map \cup {key} |->
        IF k = key
        THEN (IF key \in DOMAIN map THEN Append(map[key], addr) ELSE <<addr>>)
        ELSE map[k]]

\* The loop of lines 138-150 from the i-th entry of symVector on.
RECURSIVE DemangleFrom(_, _, _, _)
DemangleFrom(map, vec, hp, i) ==
    IF i > Len(vec) THEN map
    ELSE LET sym == hp[vec[i]]
         IN  DemangleFrom(IF canBeVersioned(sym)
                          THEN PushBack(map, Demangled(sym.name), vec[i])
                          ELSE map,
                          vec, hp, i + 1)

\* getDemangledSyms(): demangledSyms afterwards; its value is what the call
\* returns.
MutGetDemangledSymsRebuilds(ds, vec, hp) ==
    [hasValue |-> TRUE, value |-> DemangleFrom(<< >>, vec, hp, 1)]

GetDemangledSymsResult(ds, vec, hp) ==
    IF ~ds.hasValue
    THEN [hasValue |-> TRUE, value |-> DemangleFrom(<< >>, vec, hp, 1)]
    ELSE ds

GetDemangledSyms ==
    /\ scanPass = 0
    /\ demangledSyms' = GetDemangledSymsResult(demangledSyms, symVector, heap)
    /\ call' = [ op |-> "getDemangledSyms", name |-> NoName, ret |-> demangledSyms'.value,
                 sym |-> 0, real |-> 0, wrap |-> 0 ]
    /\ UNCHANGED <<symMap, symVector, heap, nWraps, config, diags, scanPass, scanPos>>
    /\ UNCHANGED cgVars

----------------------------------------------------------------------------
(* getDemangledSyms on the tables of the model *)

\* The symbols of the input files: a mangled name, a mangled name with a
\* non-default version, and a mangled name with the default version.
DemangleTableNames ==
    << <<"_", "Z", "f">>, <<"_", "Z", "f", "@", "v">>, <<"_", "Z", "g", "@", "@", "v">> >>

DemangleRecords(name) ==
    { [NewPlaceholder(name) EXCEPT !.symbolKind = k]
      : k \in {"Undefined", "Defined", "Common", "Lazy"} }

\* What the input files hand to addSymbol later on.
LateSyms ==
    [ name : {DemangleTableNames[1], DemangleTableNames[3], LateName},
      symbolKind : {"Undefined", "Defined"} ]

InitDemangle ==
    /\ symMap = TableMap([i \in 1..Len(DemangleTableNames) |->
                              StripDefaultVersion(DemangleTableNames[i])])
    /\ symVector = TableVector(DemangleTableNames)
    /\ \E r1 \in DemangleRecords(DemangleTableNames[1]),
          r2 \in DemangleRecords(DemangleTableNames[2]),
          r3 \in DemangleRecords(DemangleTableNames[3]) :
          heap = <<r1, r2, r3>>
    /\ call = CallOf("none", NoName, NullHandle)
    /\ nWraps = 0
    /\ config = NoConfig
    /\ diags = << >>
    /\ scanPass = 0
    /\ scanPos = 0
    /\ demangledSyms = NoDemangledSyms
    /\ NoCallGraphSort

NextDemangle ==
    \/ GetDemangledSyms
    \/ Insert(LateName)
    \/ \E newSym \in LateSyms : AddSymbol(newSym)

SpecDemangle == InitDemangle /\ [][NextDemangle]_vars

----------------------------------------------------------------------------
(* Properties of getDemangledSyms *)

\* The symbols of symVector that can be versioned.
Versionable == { symVector[i] : i \in { j \in 1..Len(symVector) : canBeVersioned(heap[symVector[j]]) } }

\* The name the claim files a symbol under: the demangled name; for
\* <base>@@<version> the demangled base; for <base>@<version> the demangled
\* base with "@<version>" after it.
FiledUnder(nm) ==
    IF Unversioned(nm) THEN demangleItanium(nm)
    ELSE LET base == TakeFront(nm, StrFind(nm, At))
         IN  IF HasDefaultVersion(nm) THEN demangleItanium(base)
             ELSE demangleItanium(base) \o SubSeq(nm, Len(base) + 1, Len(nm))

\* map files exactly the versionable symbols of the table, each once and
\* under its name.
FilesVersionable(map) ==
    /\ DOMAIN map = { FiledUnder(heap[addr].name) : addr \in Versionable }
    /\ \A key \in DOMAIN map :
          /\ { map[key][k] : k \in 1..Len(map[key]) }
                = { addr \in Versionable : FiledUnder(heap[addr].name) = key }
          /\ \A j, k \in 1..Len(map[key]) : map[key][j] = map[key][k] => j = k

Requested == call'.op = "getDemangledSyms"

\* C30: the mapping is built by the first request and by nothing else; it
\* then files exactly the symbols that are Defined, Common or Lazy at that
\* moment, each under its demangled base name, with "@<version>" after it for
\* a non-default version and nothing for a default version; once built it
\* never changes, whatever is inserted or resolved, and every request returns
\* it.
C30_DemangledSymsBuiltOnce ==
    /\ [][ ~demangledSyms.hasValue /\ Requested
           => /\ demangledSyms'.hasValue
              /\ FilesVersionable(demangledSyms'.value) ]_vars
    /\ [][ ~demangledSyms.hasValue /\ ~Requested => demangledSyms' = demangledSyms ]_vars
    /\ [][ demangledSyms.hasValue => demangledSyms' = demangledSyms ]_vars
    /\ [][ Requested => call'.ret = demangledSyms'.value ]_vars

\* A request has returned the mapping built earlier, which lacks a symbol
\* that was Undefined then and is Defined by now.
C30_Witness ==
    /\ call.op = "getDemangledSyms"
    /\ demangledSyms.hasValue
    /\ call.ret = demangledSyms.value
    /\ \E addr \in Versionable :
          \A key \in DOMAIN call.ret :
              \A k \in 1..Len(call.ret[key]) : call.ret[key][k] # addr
    /\ <<"f", "(", ")", "@", "v">> \in DOMAIN call.ret
    /\ <<"g", "(", ")">> \in DOMAIN call.ret

----------------------------------------------------------------------------
(* Properties of find and insert together *)

\* The handle insert(n) returns in this state.
InsertHandle(n) == InsertResult(symMap, symVector, heap, n).index

\* The handle find(n) returns in this state.
FindHandle(n) == FindResult(symMap, symVector, heap, n)

\* insert(n) reaches a record that is there and is no placeholder any more.
ReachesResolved(n) ==
    /\ ~InsertResult(symMap, symVector, heap, n).isNew
    /\ ~isPlaceholder(RecAt(symVector, heap, InsertHandle(n)))

\* C31 as stated: while no wrap was made, find(n) returns the handle
\* insert(n) returns, for every name n whose record is resolved, the names
\* <base>@@<version> included.
C31_FindAgreesWithInsert ==
    nWraps = 0 => \A n \in NameSet : ReachesResolved(n) => FindHandle(n) = InsertHandle(n)

\* C31, amended: while no wrap was made, find(n) returns the handle insert(n)
\* returns for every name n that is not of the form <base>@@<version> and
\* whose record is resolved.  For n = <base>@@<version>, insert(n) returns the
\* handle of <base>, find(n) returns not-found, and find(<base>) returns the
\* handle insert(n) returns.
C31_FindAgreesOnStrippedNames ==
    nWraps = 0 =>
        \A n \in NameSet :
            ReachesResolved(n) =>
                IF HasDefaultVersion(n)
                THEN /\ FindHandle(n) = NullHandle
                     /\ FindHandle(StripDefaultVersion(n)) = InsertHandle(n)
                ELSE FindHandle(n) = InsertHandle(n)

\* No wrap was made; find(a@@v) has returned not-found although insert(a@@v)
\* reaches the resolved record of a.
C31_Witness ==
    /\ nWraps = 0
    /\ call.op = "find"
    /\ HasDefaultVersion(call.name)
    /\ call.ret = NullHandle
    /\ ReachesResolved(call.name)
    /\ FindHandle(StripDefaultVersion(call.name)) = InsertHandle(call.name)

====
